---- MODULE Spec2Model ----
(***************************************************************************)
(* A model of the incremental build engine of kkr:                         *)
(*   - the build coordinator (site.Open's builder goroutine, Site.Build),  *)
(*   - filewriter.FileWriter.WriteFile and CopyFile,                       *)
(*   - the page cache consulted by site.LoadPage,                          *)
(*   - the polling watcher of fspoll (Watch, start, check, Close),         *)
(*   - the asset collection (Process, ProcessAsset).                       *)
(* Each component has its own specification (SpecBuild, SpecWrite,         *)
(* SpecCopy, SpecCache, SpecPoll, SpecWatch, SpecAssets); the variables of *)
(* the other components are left unchanged by it.                          *)
(***************************************************************************)
EXTENDS Integers, Sequences, FiniteSets, TLC

\* ------------------------------------------------------------------ bounds
\* number of goroutines that call Site.Build (each calls it again and again)
NCallers == 2
\* number of LoadPage calls made in all
MaxLoads == 2
\* number of changes made to the source files while the program runs
MaxEdits == 1
\* number of changes made to the watched tree
MaxFsOps == 2
\* largest interval and sleepInterval Watch is called with, in seconds
MaxInterval == 9
MaxSleepInterval == 5
\* number of sources an asset is declared with
MaxFiles == 2

\* the assets file declares at most this many assets
MaxDecls == 2

\* the calls of ProcessAsset inside each other that are followed
MaxDepth == 4

\* the tasks that the caller of a pool has to submit
NTasks == 3

\* the workers of a pool: the hardware parallelism at NewPool
NWorkers == 2

\* the calls of Seen on one cache
MaxCalls == 4

\* the calls of LoadPost on one post file
MaxPostLoads == 3

\* the builds of one Site that are followed for its sitemap
MaxBuilds == 2

\* the changes of the source tree while the site is watched
MaxChanges == 3

None == "none"

\* no value received or returned yet
NoResult == [err |-> None, by |-> 0]

VARIABLES
    \* ---- build coordinator (src/site/site.go)
    callerPc,      \* position of every caller inside Site.Build
    outstanding,   \* per caller: triggers accepted minus results received
    got,           \* value a caller received from buildErrors (with its origin)
    builderPc,     \* position of the builder goroutine started by Open
    stage,         \* index of the runBuild step about to run
    active,        \* number of runBuild executions in progress
    trigBy,        \* caller whose trigger the builder took from buildQueue
    result,        \* value runBuild returned, about to be sent on buildErrors
    cfgSearch,     \* s.Config.Search != nil
    cfgTagIndex,   \* s.Config.TagIndex != nil
    cleanBeforeBuilding,
    owed,          \* triggers received minus runBuild executions started
    unsent,        \* runBuild executions started minus results delivered
    \* ---- FileWriter.WriteFile (src/filewriter/filewriter.go)
    wCompressors,  \* f.compressors, by their Ext
    wExtOk,        \* filepath.Ext(filename) is in f.compressedExtensions
    wMkdirOk,      \* os.MkdirAll succeeds
    wFate,         \* per writer: the operation of it that fails, or "ok"
    wMainPc,       \* position of the goroutine that called WriteFile
    wPc,           \* position of every writer goroutine
    wDone,         \* the buffered channel done
    wRecv,         \* the loop counter i of the receiving loop
    wLastErr,      \* lastErr
    wLog,          \* the values received from done, in order
    wPend,         \* per writer: the value it is about to send
    wSends,        \* per writer: the number of values it has sent
    wFile,         \* per writer: the state of the file it writes
    wOut,          \* per compressor: its *os.File out
    wZErr,         \* per compressor: z has failed or is closed
    wCrashed,      \* a goroutine panicked: the process is gone
    \* ---- FileWriter.CopyFile (src/filewriter/filewriter.go)
    cCompressors,  \* f.compressors, by their Ext
    cExtOk,        \* filepath.Ext(outfile) is in f.compressedExtensions
    cMkdirOk,      \* os.MkdirAll succeeds
    cLinkOk,       \* os.Link succeeds
    cCopyFate,     \* the operation of the fallback copy that fails, or "ok"
    cFate,         \* per compressor: the operation of compressFile that fails
    cMainPc,       \* position of the goroutine that called CopyFile
    cPc,           \* position of every compressor goroutine
    cDone,         \* the buffered channel done
    cRecv,         \* the loop counter i of the receiving loop
    cLastErr,      \* lastErr, and the error CopyFile returns early
    cLog,          \* the values received from done, in order
    cPend,         \* per compressor: the value compressFile returned
    cSends,        \* per compressor: the number of values it has sent
    cOld,          \* the state of the output files before the call
    cFile,         \* the state of outfile and of every outfile.<ext>
    cLinkTried,    \* os.Link has been called
    cCopyTried,    \* the fallback copy has been started
    \* ---- the page cache and LoadPage (src/site/page.go)
    pCacheOn,      \* pageCache != nil
    pCache,        \* pageCache.m
    pDisk,         \* the source files on disk
    pEdits,        \* changes made to the source files so far
    pPc,           \* position of every goroutine inside LoadPage
    pPath,         \* fullname
    pLoads,        \* LoadPage calls started so far
    pId,           \* the Page object the call allocates, if it builds one
    pSeen,         \* page, as pageCache.Get returned it
    pMatch,        \* os.Stat inside metafile.Changed found page.fi on disk
    pFi,           \* f.FileInfo(): what f.Stat returned inside metafile.Open
    pMeta,         \* the front matter readMeta has read
    pNew,          \* p, the Page LoadPage has built
    pRet,          \* what LoadPage returns
    pHit,          \* LoadPage returned the cached Page
    pParsed,       \* LoadPage went on to metafile.Open
    pDirty,        \* the file was changed while the call was running
    \* ---- the polling watcher (src/fspoll/fspoll.go)
    fGlobs,        \* w.excludeGlobs
    fFs,           \* the watched tree on disk
    fOps,          \* changes made to the tree so far; the clock of its files
    fState,        \* w.state
    fPc,           \* position of the goroutine running w.start()
    fInterval,     \* w.interval
    fSleepInterval, \* w.sleepInterval
    fCur,          \* currentInterval
    fElapsed,      \* time since lastChangeTime
    fClosePc,      \* position of the goroutine that calls w.Close()
    fErrSeen,      \* an error was received from w.Error
    fTouched,      \* a path that is not excluded changed since w.state was taken
    \* ---- the arguments of fspoll.Watch
    aInterval,     \* interval
    aSleepInterval, \* sleepInterval
    aWatcher,      \* the Watcher that Watch returns
    \* ---- the asset collection (assets package, src/importer/importer.go)
    rDecl,         \* the collection as Load and SetStringAsset made it
    rC,            \* c.assets
    rVisited,      \* the assets the loop of Process has been at
    rErr,          \* what Process returned
    rRun,          \* first or second resolution
    rFirst,        \* the results of the first resolution
    rFiles,        \* the bytes of the source files of the assets
    rFilters,      \* c.filters: the filter registered for an asset name
    rRendered,     \* the assets the loop of Render has been at
    rRenderErr,    \* what Render returned
    rWritten,      \* the asset files written in this build, with their bytes
    \* ---- loading the assets file and the page filters (assets.Load, Site.LoadPageFilters)
    lPc,           \* position of the build in its loading steps
    lDecls,        \* the assets that the assets file declares, in its order
    lPageCfg,      \* Config.Filters: the filter line of a page extension
    lI,            \* the index of the loop of Load
    lAssets,       \* c.assets of the collection that Load fills
    lFilters,      \* c.filters of the collection that Load fills
    lPageFilters,  \* s.PageFilters
    lErr,          \* the error that the build returned
    \* ---- the calls of ProcessAsset, one frame per call (src/importer/importer.go)
    kC,            \* c.assets: the sources of every asset and whether it is processed
    kStack,        \* the calls of ProcessAsset that have not returned, with the index of their loop
    kVisited,      \* the assets the loop of Process has been at
    kErr,          \* what Process returned
    \* ---- the task pool (utils.NewPool, as the callers in src/site/site.go use it)
    qState,        \* per task: new, queued, running, ok or failed
    qAddRet,       \* per task: what Add returned for it
    qDone,         \* the tasks that have completed, in the order of completion
    qErr,          \* the task whose error the pool holds, or 0
    qNext,         \* the task that the caller submits next
    qPc,           \* the caller: adding, waiting in Wait or returned from it
    qWaitRet,      \* the task whose error Wait returned, 0 for nil
    \* ---- the hash cache (src/hashcache/hashcache.go)
    hM,            \* c.m: the content hash kept for a path
    hCalls,        \* the calls of Seen so far, with what they returned
    \* ---- posts
    oCacheOn,      \* EnableCache(true) was called
    oFile,         \* the post file: its name and the date and tags of its front matter
    oCache,        \* the Page the cache holds for the file, if any
    oChanged,      \* the file info differs from the one of the cached Page
    oLoads,        \* what the calls of LoadPost have returned
    \* ---- sitemap
    mIn,           \* per post, page and tag: what its InSitemap returns
    mBuild,        \* the builds that were started
    mPc,           \* where runBuild is: idle, at a render step, or at RenderSitemap
    mConf,         \* the configuration loaded last names a sitemap file
    mSitemap,      \* s.sitemap: nil, or the entries of the Sitemap
    mTask,         \* per render task: where it is
    mRead,         \* per render task: the entries its append has read
    mMapRendered,  \* RenderSitemap of this build has rendered a sitemap
    mLast,         \* what the last runBuild returned
    \* ---- watching
    xPc,           \* the goroutine of StartWatching: at its select, or in Build before or after the sources are read
    xSeen,         \* the tree as the last Build has read it, at first the tree as it is
    xBuilds,       \* the calls of Build the goroutine has made
    xWaited        \* a Change was pending when the last Build returned

bvars == <<callerPc, outstanding, got, builderPc, stage, active, trigBy,
           result, cfgSearch, cfgTagIndex, cleanBeforeBuilding, owed, unsent>>

wvars == <<wCompressors, wExtOk, wMkdirOk, wFate, wMainPc, wPc, wDone, wRecv,
           wLastErr, wLog, wPend, wSends, wFile, wOut, wZErr, wCrashed>>

cvars == <<cCompressors, cExtOk, cMkdirOk, cLinkOk, cCopyFate, cFate, cMainPc,
           cPc, cDone, cRecv, cLastErr, cLog, cPend, cSends, cOld, cFile,
           cLinkTried, cCopyTried>>

pvars == <<pCacheOn, pCache, pDisk, pEdits, pLoads, pPc, pPath, pId, pSeen,
           pMatch, pFi, pMeta, pNew, pRet, pHit, pParsed, pDirty>>

fvars == <<fGlobs, fFs, fOps, fState, fPc, fInterval, fSleepInterval, fCur,
           fElapsed, fClosePc, fErrSeen, fTouched>>

avars == <<aInterval, aSleepInterval, aWatcher>>

rvars == <<rDecl, rC, rVisited, rErr, rRun, rFirst, rFiles, rFilters,
           rRendered, rRenderErr, rWritten>>

lvars == <<lPc, lDecls, lPageCfg, lI, lAssets, lFilters, lPageFilters, lErr>>

kvars == <<kC, kStack, kVisited, kErr>>

qvars == <<qState, qAddRet, qDone, qErr, qNext, qPc, qWaitRet>>

hvars == <<hM, hCalls>>

ovars == <<oCacheOn, oFile, oCache, oChanged, oLoads>>

mvars == <<mIn, mBuild, mPc, mConf, mSitemap, mTask, mRead, mMapRendered,
           mLast>>

xvars == <<xPc, xSeen, xBuilds, xWaited>>

vars == <<bvars, wvars, cvars, pvars, fvars, avars, rvars, lvars, kvars,
          qvars, hvars, ovars, mvars, xvars>>

\* what the actions of one component leave alone
notBuild == <<wvars, cvars, pvars, fvars, avars, rvars, lvars, kvars, qvars,
              hvars, ovars, mvars, xvars>>

notWrite == <<bvars, cvars, pvars, fvars, avars, rvars, lvars, kvars, qvars,
              hvars, ovars, mvars, xvars>>

notCopy == <<bvars, wvars, pvars, fvars, avars, rvars, lvars, kvars, qvars,
             hvars, ovars, mvars, xvars>>

notPage == <<bvars, wvars, cvars, fvars, avars, rvars, lvars, kvars, qvars,
             hvars, ovars, mvars, xvars>>

notPoll == <<bvars, wvars, cvars, pvars, avars, rvars, lvars, kvars, qvars,
             hvars, ovars, mvars, xvars>>

notWatch == <<bvars, wvars, cvars, pvars, fvars, rvars, lvars, kvars, qvars,
              hvars, ovars, mvars, xvars>>

notAssets == <<bvars, wvars, cvars, pvars, fvars, avars, lvars, kvars,
               qvars, hvars, ovars, mvars, xvars>>

notLoad == <<bvars, wvars, cvars, pvars, fvars, avars, kvars, qvars, hvars,
             ovars, mvars, xvars>>

notCycle == <<bvars, wvars, cvars, pvars, fvars, avars, rvars, lvars, qvars,
              hvars, ovars, mvars, xvars>>

notPool == <<bvars, wvars, cvars, pvars, fvars, avars, rvars, lvars, kvars,
             hvars, ovars, mvars, xvars>>

notHash == <<bvars, wvars, cvars, pvars, fvars, avars, rvars, lvars, kvars,
             qvars, ovars, mvars, xvars>>

notPost == <<bvars, wvars, cvars, pvars, fvars, avars, rvars, lvars, kvars,
             qvars, hvars, mvars, xvars>>

notSitemap == <<bvars, wvars, cvars, pvars, fvars, avars, rvars, lvars,
                kvars, qvars, hvars, ovars, xvars>>

notWatching == <<bvars, wvars, cvars, pvars, avars, rvars, lvars, kvars,
                 qvars, hvars, ovars, mvars>>

\* ================================================================== build
Callers == 1..NCallers

\* the steps of runBuild, in the order of the source
Steps == <<"Clean", "LoadConfig", "LoadPageFilters", "LoadAssets", "LoadCSP",
           "LoadIncludes", "LoadLayoutFuncs", "LoadLayouts", "LoadPosts",
           "ProcessAssets", "RenderAssets", "RenderPosts", "RenderPages",
           "RenderTagsIndex", "RenderSitemap">>

NSteps == Len(Steps)

\* a step that the configuration switches off is skipped
StepEnabled(i) ==
    CASE Steps[i] = "Clean" -> cleanBeforeBuilding
      [] Steps[i] = "RenderTagsIndex" -> cfgTagIndex
      [] OTHER -> TRUE

BuildInit ==
    /\ callerPc = [c \in Callers |-> "idle"]
    /\ outstanding = [c \in Callers |-> 0]
    /\ got = [c \in Callers |-> NoResult]
    /\ builderPc = "recv"
    /\ stage = 0
    /\ active = 0
    /\ trigBy = 0
    /\ result = NoResult
    /\ cfgSearch \in BOOLEAN
    /\ cfgTagIndex \in BOOLEAN
    /\ cleanBeforeBuilding \in BOOLEAN
    /\ owed = 0
    /\ unsent = 0

\* a goroutine enters Site.Build
BuildCall(c) ==
    /\ callerPc[c] = "idle"
    /\ callerPc' = [callerPc EXCEPT ![c] = "send"]
    /\ UNCHANGED <<outstanding, got, builderPc, stage, active, trigBy, result,
                   cfgSearch, cfgTagIndex, cleanBeforeBuilding, owed, unsent>>
    /\ UNCHANGED notBuild

BuilderReadyAlways == TRUE

\* the builder goroutine is blocked in  do := <-s.buildQueue
BuilderReady == builderPc = "recv"

\* s.buildQueue <- true  meets  do := <-s.buildQueue  (unbuffered channel)
Trigger(c) ==
    /\ callerPc[c] = "send"
    /\ BuilderReady
    /\ callerPc' = [callerPc EXCEPT ![c] = "recv"]
    /\ builderPc' = "start"
    /\ trigBy' = c
    /\ owed' = owed + 1
    /\ outstanding' = [outstanding EXCEPT ![c] = @ + 1]
    /\ UNCHANGED <<got, stage, active, result, cfgSearch, cfgTagIndex,
                   cleanBeforeBuilding, unsent>>
    /\ UNCHANGED notBuild

\* the builder goroutine calls s.runBuild()
RunBuildStart ==
    /\ builderPc = "start"
    /\ builderPc' = "run"
    /\ stage' = 1
    /\ active' = active + 1
    /\ owed' = owed - 1
    /\ unsent' = unsent + 1
    /\ UNCHANGED <<callerPc, outstanding, got, trigBy, result, cfgSearch,
                   cfgTagIndex, cleanBeforeBuilding>>
    /\ UNCHANGED notBuild

AfterRunBuildDropErr(err) == IF err = "nil" THEN "send" ELSE "recv"

\* what the builder goroutine does with the value of runBuild: it sends it
AfterRunBuild(err) == "send"

\* one step of runBuild: it fails and runBuild returns its error, or it
\* succeeds and the next step follows; LoadConfig re-reads the configuration
RunBuildStep ==
    /\ builderPc = "run"
    /\ stage \in 1..NSteps
    /\ IF ~StepEnabled(stage)
       THEN /\ stage' = stage + 1
            /\ UNCHANGED <<builderPc, active, result, cfgSearch, cfgTagIndex>>
       ELSE \/ /\ builderPc' = AfterRunBuild(Steps[stage])
               /\ result' = [err |-> Steps[stage], by |-> trigBy]
               /\ active' = active - 1
               /\ stage' = 0
               /\ UNCHANGED <<cfgSearch, cfgTagIndex>>
            \/ /\ stage' = stage + 1
               /\ IF Steps[stage] = "LoadConfig"
                  THEN /\ cfgSearch' \in BOOLEAN
                       /\ cfgTagIndex' \in BOOLEAN
                  ELSE UNCHANGED <<cfgSearch, cfgTagIndex>>
               /\ UNCHANGED <<builderPc, active, result>>
    /\ UNCHANGED <<callerPc, outstanding, got, trigBy, cleanBeforeBuilding,
                   owed, unsent>>
    /\ UNCHANGED notBuild

\* runBuild went through every step: return nil
RunBuildReturn ==
    /\ builderPc = "run"
    /\ stage = NSteps + 1
    /\ builderPc' = AfterRunBuild("nil")
    /\ result' = [err |-> "nil", by |-> trigBy]
    /\ active' = active - 1
    /\ stage' = 0
    /\ UNCHANGED <<callerPc, outstanding, got, trigBy, cfgSearch, cfgTagIndex,
                   cleanBeforeBuilding, owed, unsent>>
    /\ UNCHANGED notBuild

ReceivingEarly(c) == callerPc[c] \in {"send", "recv"}

\* caller c is blocked in  err = <-s.buildErrors, which follows its send
Receiving(c) == callerPc[c] = "recv"

\* s.buildErrors <- ...  meets  err = <-s.buildErrors  (unbuffered channel)
Result(c) ==
    /\ builderPc = "send"
    /\ Receiving(c)
    /\ got' = [got EXCEPT ![c] = result]
    /\ callerPc' = [callerPc EXCEPT ![c] = "check"]
    /\ builderPc' = "recv"
    /\ result' = NoResult
    /\ unsent' = unsent - 1
    /\ outstanding' = [outstanding EXCEPT ![c] = @ - 1]
    /\ UNCHANGED <<stage, active, trigBy, cfgSearch, cfgTagIndex,
                   cleanBeforeBuilding, owed>>
    /\ UNCHANGED notBuild

\* Build after the receive: return the error, or index when search is on
BuildCheck(c) ==
    /\ callerPc[c] = "check"
    /\ IF got[c].err = "nil" /\ cfgSearch
       THEN /\ callerPc' = [callerPc EXCEPT ![c] = "search"]
            /\ UNCHANGED got
       ELSE /\ callerPc' = [callerPc EXCEPT ![c] = "idle"]
            /\ got' = [got EXCEPT ![c] = NoResult]
    /\ UNCHANGED <<outstanding, builderPc, stage, active, trigBy, result,
                   cfgSearch, cfgTagIndex, cleanBeforeBuilding, owed, unsent>>
    /\ UNCHANGED notBuild

\* generateSearchIndex has walked the output tree and written the index
SearchDone(c) ==
    /\ callerPc[c] = "search"
    /\ callerPc' = [callerPc EXCEPT ![c] = "idle"]
    /\ got' = [got EXCEPT ![c] = NoResult]
    /\ UNCHANGED <<outstanding, builderPc, stage, active, trigBy, result,
                   cfgSearch, cfgTagIndex, cleanBeforeBuilding, owed, unsent>>
    /\ UNCHANGED notBuild

BuilderStep == RunBuildStart \/ RunBuildStep \/ RunBuildReturn

BuildNext ==
    \/ \E c \in Callers : BuildCall(c)
    \/ \E c \in Callers : Trigger(c)
    \/ RunBuildStart
    \/ RunBuildStep
    \/ RunBuildReturn
    \/ \E c \in Callers : Result(c)
    \/ \E c \in Callers : BuildCheck(c)
    \/ \E c \in Callers : SearchDone(c)

\* the coordinator before any Build call; no Site is open
BuildOff ==
    /\ callerPc = [c \in Callers |-> "idle"]
    /\ outstanding = [c \in Callers |-> 0]
    /\ got = [c \in Callers |-> NoResult]
    /\ builderPc = "recv"
    /\ stage = 0
    /\ active = 0
    /\ trigBy = 0
    /\ result = NoResult
    /\ cfgSearch = FALSE
    /\ cfgTagIndex = FALSE
    /\ cleanBeforeBuilding = FALSE
    /\ owed = 0
    /\ unsent = 0

\* ============================================================== WriteFile
\* the compression methods New accepts, by the extension they append
Methods == {"gz", "br"}

Primary == "primary"

Writers == {Primary} \cup Methods

\* the operation of a compressor goroutine that can fail
CompressorFates == {"ok", "open", "write", "zclose", "close"}

\* ioutil.WriteFile fails before it has created the file, or while writing
PrimaryFates == {"ok", "open", "write"}

NilVal == [from |-> None, err |-> "nil"]

ErrVal(w, what) == [from |-> w, err |-> what]

\* FileWriter.numberOfCompressors
numberOfCompressors == IF wExtOk THEN Cardinality(wCompressors) ELSE 0

nwriters == 1 + numberOfCompressors

\* the goroutines WriteFile starts
Started == {Primary} \cup (IF nwriters > 1 THEN wCompressors ELSE {})

WriteInit ==
    /\ wCompressors \in SUBSET Methods
    /\ wExtOk \in BOOLEAN
    /\ wMkdirOk \in BOOLEAN
    /\ wFate \in [Writers -> CompressorFates]
    /\ wFate[Primary] \in PrimaryFates
    /\ \A m \in Methods :
         (~wMkdirOk \/ ~wExtOk \/ m \notin wCompressors) => wFate[m] = "ok"
    /\ ~wMkdirOk => wFate[Primary] = "ok"
    /\ wMainPc = "mkdir"
    /\ wPc = [w \in Writers |-> "off"]
    /\ wDone = <<>>
    /\ wRecv = 0
    /\ wLastErr = NilVal
    /\ wLog = <<>>
    /\ wPend = [w \in Writers |-> NilVal]
    /\ wSends = [w \in Writers |-> 0]
    \* the files of an earlier build are there, or nothing is
    /\ \E old \in {"absent", "stale"} : wFile = [w \in Writers |-> old]
    /\ wOut = [m \in Methods |-> "nil"]
    /\ wZErr = [m \in Methods |-> FALSE]
    /\ wCrashed = FALSE

\* os.MkdirAll(filepath.Dir(filename), 0755)
WMkdir ==
    /\ ~wCrashed
    /\ wMainPc = "mkdir"
    /\ IF wMkdirOk
       THEN /\ wMainPc' = "spawn"
            /\ UNCHANGED wLastErr
       ELSE /\ wMainPc' = "returned"
            /\ wLastErr' = ErrVal("main", "mkdir")
    /\ UNCHANGED <<wCompressors, wExtOk, wMkdirOk, wFate, wPc, wDone, wRecv,
                   wLog, wPend, wSends, wFile, wOut, wZErr, wCrashed>>
    /\ UNCHANGED notWrite

\* make(chan error, nwriters) and the go statements
WSpawn ==
    /\ ~wCrashed
    /\ wMainPc = "spawn"
    /\ wMainPc' = "collect"
    /\ wPc' = [w \in Writers |->
                 IF w \notin Started THEN "off"
                 ELSE IF w = Primary THEN "write" ELSE "open"]
    /\ UNCHANGED <<wCompressors, wExtOk, wMkdirOk, wFate, wDone, wRecv,
                   wLastErr, wLog, wPend, wSends, wFile, wOut, wZErr, wCrashed>>
    /\ UNCHANGED notWrite

\* the primary goroutine: ioutil.WriteFile(filename, data, 0644)
WPrimaryWrite ==
    /\ ~wCrashed
    /\ wPc[Primary] = "write"
    /\ wPc' = [wPc EXCEPT ![Primary] = "sendNil"]
    /\ wPend' = [wPend EXCEPT ![Primary] =
                   IF wFate[Primary] = "ok" THEN NilVal
                   ELSE ErrVal(Primary, wFate[Primary])]
    /\ wFile' = [wFile EXCEPT ![Primary] =
                   CASE wFate[Primary] = "ok" -> "complete"
                     [] wFate[Primary] = "write" -> "partial"
                     [] OTHER -> @]
    /\ UNCHANGED <<wCompressors, wExtOk, wMkdirOk, wFate, wMainPc, wDone,
                   wRecv, wLastErr, wLog, wSends, wOut, wZErr, wCrashed>>
    /\ UNCHANGED notWrite

\* os.OpenFile(filename+"."+ext, O_WRONLY|O_CREATE|O_TRUNC, 0644)
WOpen(m) ==
    /\ ~wCrashed
    /\ wPc[m] = "open"
    /\ IF wFate[m] = "open"
       THEN /\ wPc' = [wPc EXCEPT ![m] = "sendOpenErr"]
            /\ wPend' = [wPend EXCEPT ![m] = ErrVal(m, "open")]
            /\ UNCHANGED <<wFile, wOut>>
       ELSE /\ wPc' = [wPc EXCEPT ![m] = "write"]
            /\ wFile' = [wFile EXCEPT ![m] = "partial"]
            /\ wOut' = [wOut EXCEPT ![m] = "open"]
            /\ UNCHANGED wPend
    /\ UNCHANGED <<wCompressors, wExtOk, wMkdirOk, wFate, wMainPc, wDone,
                   wRecv, wLastErr, wLog, wSends, wZErr, wCrashed>>
    /\ UNCHANGED notWrite

\* z := newc(out); z.Write(data); on an error z.Close(), out.Close() and
\* os.Remove(out.Name()), which dereferences out: a nil out panics
WWrite(m) ==
    /\ ~wCrashed
    /\ wPc[m] = "write"
    /\ IF wOut[m] = "nil"
       THEN /\ wCrashed' = TRUE
            /\ wZErr' = [wZErr EXCEPT ![m] = TRUE]
            /\ UNCHANGED <<wPc, wPend, wFile, wOut>>
       ELSE IF wFate[m] = "write"
       THEN /\ wZErr' = [wZErr EXCEPT ![m] = TRUE]
            /\ wOut' = [wOut EXCEPT ![m] = "closed"]
            /\ wFile' = [wFile EXCEPT ![m] = "absent"]
            /\ wPend' = [wPend EXCEPT ![m] = ErrVal(m, "write")]
            /\ wPc' = [wPc EXCEPT ![m] = "sendWriteErr"]
            /\ UNCHANGED wCrashed
       ELSE /\ wPc' = [wPc EXCEPT ![m] = "zclose"]
            /\ UNCHANGED <<wPend, wFile, wOut, wZErr, wCrashed>>
    /\ UNCHANGED <<wCompressors, wExtOk, wMkdirOk, wFate, wMainPc, wDone,
                   wRecv, wLastErr, wLog, wSends>>
    /\ UNCHANGED notWrite

\* z.Close(): it fails again once z has failed; on an error out.Close() and
\* os.Remove(out.Name())
WZClose(m) ==
    /\ ~wCrashed
    /\ wPc[m] = "zclose"
    /\ IF wZErr[m] \/ wFate[m] = "zclose"
       THEN /\ wZErr' = [wZErr EXCEPT ![m] = TRUE]
            /\ wOut' = [wOut EXCEPT ![m] = "closed"]
            /\ wFile' = [wFile EXCEPT ![m] = "absent"]
            /\ wPend' = [wPend EXCEPT ![m] = ErrVal(m, "zclose")]
            /\ wPc' = [wPc EXCEPT ![m] = "sendZCloseErr"]
       ELSE /\ wFile' = [wFile EXCEPT ![m] = "complete"]
            /\ wPc' = [wPc EXCEPT ![m] = "close"]
            /\ UNCHANGED <<wZErr, wOut, wPend>>
    /\ UNCHANGED <<wCompressors, wExtOk, wMkdirOk, wFate, wMainPc, wDone,
                   wRecv, wLastErr, wLog, wSends, wCrashed>>
    /\ UNCHANGED notWrite

\* out.Close(): it fails on a file that is closed already; on an error
\* os.Remove(out.Name())
WClose(m) ==
    /\ ~wCrashed
    /\ wPc[m] = "close"
    /\ IF wOut[m] = "closed" \/ wFate[m] = "close"
       THEN /\ wFile' = [wFile EXCEPT ![m] = "absent"]
            /\ wPend' = [wPend EXCEPT ![m] = ErrVal(m, "close")]
            /\ wPc' = [wPc EXCEPT ![m] = "sendCloseErr"]
       ELSE /\ wPend' = [wPend EXCEPT ![m] = NilVal]
            /\ wPc' = [wPc EXCEPT ![m] = "sendNil"]
            /\ UNCHANGED wFile
    /\ wOut' = [wOut EXCEPT ![m] = "closed"]
    /\ UNCHANGED <<wCompressors, wExtOk, wMkdirOk, wFate, wMainPc, wDone,
                   wRecv, wLastErr, wLog, wSends, wZErr, wCrashed>>
    /\ UNCHANGED notWrite

\* where a writer goroutine goes on after  done <- v : no send of the
\* compressor goroutine is followed by a return
AfterSend(pc) ==
    CASE pc = "sendOpenErr" -> "write"
      [] pc = "sendWriteErr" -> "zclose"
      [] pc = "sendZCloseErr" -> "close"
      [] pc = "sendCloseErr" -> "sendNil"
      [] OTHER -> "exit"

SendPcs == {"sendOpenErr", "sendWriteErr", "sendZCloseErr", "sendCloseErr",
            "sendNil"}

\* done <- v : blocks while the buffer of done is full
WSend(w) ==
    /\ ~wCrashed
    /\ wPc[w] \in SendPcs
    /\ Len(wDone) < nwriters
    /\ wDone' = Append(wDone,
                       IF wPc[w] = "sendNil" /\ w # Primary
                       THEN [from |-> w, err |-> "nil"]
                       ELSE [from |-> w, err |-> wPend[w].err])
    /\ wSends' = [wSends EXCEPT ![w] = @ + 1]
    /\ wPc' = [wPc EXCEPT ![w] = AfterSend(wPc[w])]
    /\ UNCHANGED <<wCompressors, wExtOk, wMkdirOk, wFate, wMainPc, wRecv,
                   wLastErr, wLog, wPend, wFile, wOut, wZErr, wCrashed>>
    /\ UNCHANGED notWrite

KeepLastErr(lastErr, err) == IF err.err # "nil" THEN err ELSE lastErr

\* if err != nil && lastErr == nil { lastErr = err }
KeepFirstErr(lastErr, err) ==
    IF err.err # "nil" /\ lastErr.err = "nil" THEN err ELSE lastErr

\* err := <-done  in the loop  for i := 0; i < nwriters; i++
WCollect ==
    /\ ~wCrashed
    /\ wMainPc = "collect"
    /\ wRecv < nwriters
    /\ Len(wDone) > 0
    /\ wDone' = Tail(wDone)
    /\ wLog' = Append(wLog, Head(wDone))
    /\ wLastErr' = KeepFirstErr(wLastErr, Head(wDone))
    /\ wRecv' = wRecv + 1
    /\ UNCHANGED <<wCompressors, wExtOk, wMkdirOk, wFate, wMainPc, wPc, wPend,
                   wSends, wFile, wOut, wZErr, wCrashed>>
    /\ UNCHANGED notWrite

\* return lastErr
WReturn ==
    /\ ~wCrashed
    /\ wMainPc = "collect"
    /\ wRecv = nwriters
    /\ wMainPc' = "returned"
    /\ UNCHANGED <<wCompressors, wExtOk, wMkdirOk, wFate, wPc, wDone, wRecv,
                   wLastErr, wLog, wPend, wSends, wFile, wOut, wZErr, wCrashed>>
    /\ UNCHANGED notWrite

WriteNext ==
    \/ WMkdir
    \/ WSpawn
    \/ WPrimaryWrite
    \/ \E m \in Methods : WOpen(m)
    \/ \E m \in Methods : WWrite(m)
    \/ \E m \in Methods : WZClose(m)
    \/ \E m \in Methods : WClose(m)
    \/ \E w \in Writers : WSend(w)
    \/ WCollect
    \/ WReturn

\* no WriteFile call is in progress
WriteOff ==
    /\ wCompressors = {}
    /\ wExtOk = FALSE
    /\ wMkdirOk = TRUE
    /\ wFate = [w \in Writers |-> "ok"]
    /\ wMainPc = "off"
    /\ wPc = [w \in Writers |-> "off"]
    /\ wDone = <<>>
    /\ wRecv = 0
    /\ wLastErr = NilVal
    /\ wLog = <<>>
    /\ wPend = [w \in Writers |-> NilVal]
    /\ wSends = [w \in Writers |-> 0]
    /\ wFile = [w \in Writers |-> "absent"]
    /\ wOut = [m \in Methods |-> "nil"]
    /\ wZErr = [m \in Methods |-> FALSE]
    /\ wCrashed = FALSE

\* =============================================================== CopyFile
Dst == "dst"

\* compressFile fails opening the source, opening dst.<ext>, in io.Copy, in
\* z.Close or in the deferred out.Close
CompressFileFates == {"ok", "openIn", "openOut", "copy", "zclose", "close"}

\* the copy that copyFile falls back to fails opening the source, creating
\* the destination, in io.Copy or in the deferred out.Close
CopyFates == {"ok", "openIn", "create", "copy", "close"}

cNumberOfCompressors == IF cExtOk THEN Cardinality(cCompressors) ELSE 0

CopyInit ==
    /\ cCompressors \in SUBSET Methods
    /\ cExtOk \in BOOLEAN
    /\ cMkdirOk \in BOOLEAN
    /\ cLinkOk \in BOOLEAN
    /\ cCopyFate \in CopyFates
    /\ cLinkOk => cCopyFate = "ok"
    /\ cFate \in [Methods -> CompressFileFates]
    /\ \A m \in Methods : (~cExtOk \/ m \notin cCompressors) => cFate[m] = "ok"
    /\ ~cMkdirOk =>
         cLinkOk /\ cExtOk /\ cCompressors = {} /\ cCopyFate = "ok"
    /\ cMainPc = "mkdir"
    /\ cPc = [m \in Methods |-> "off"]
    /\ cDone = <<>>
    /\ cRecv = 0
    /\ cLastErr = NilVal
    /\ cLog = <<>>
    /\ cPend = [m \in Methods |-> NilVal]
    /\ cSends = [m \in Methods |-> 0]
    \* the files of an earlier build are there, or nothing is
    /\ cOld \in {"absent", "stale"}
    /\ cFile = [w \in {Dst} \cup Methods |-> cOld]
    /\ cLinkTried = FALSE
    /\ cCopyTried = FALSE

\* os.MkdirAll(filepath.Dir(outfile), 0755)
CMkdir ==
    /\ cMainPc = "mkdir"
    /\ IF cMkdirOk
       THEN /\ cMainPc' = "link"
            /\ UNCHANGED cLastErr
       ELSE /\ cMainPc' = "returned"
            /\ cLastErr' = ErrVal("main", "mkdir")
    /\ UNCHANGED <<cCompressors, cExtOk, cMkdirOk, cLinkOk, cCopyFate, cFate,
                   cPc, cDone, cRecv, cLog, cPend, cSends, cOld, cFile,
                   cLinkTried, cCopyTried>>
    /\ UNCHANGED notCopy

\* copyFile: os.Remove(outfile), then os.Link(infile, outfile)
CLink ==
    /\ cMainPc = "link"
    /\ cLinkTried' = TRUE
    /\ IF cLinkOk
       THEN /\ cFile' = [cFile EXCEPT ![Dst] = "complete"]
            /\ cMainPc' = "count"
       ELSE /\ cFile' = [cFile EXCEPT ![Dst] = "absent"]
            /\ cMainPc' = "copy"
    /\ UNCHANGED <<cCompressors, cExtOk, cMkdirOk, cLinkOk, cCopyFate, cFate,
                   cPc, cDone, cRecv, cLastErr, cLog, cPend, cSends, cOld,
                   cCopyTried>>
    /\ UNCHANGED notCopy

\* copyFile after the link failed: os.Open, os.Create, io.Copy and the
\* deferred out.Close, which removes outfile on an error
CCopy ==
    /\ cMainPc = "copy"
    /\ cCopyTried' = TRUE
    /\ IF cCopyFate = "ok"
       THEN /\ cFile' = [cFile EXCEPT ![Dst] = "complete"]
            /\ cMainPc' = "count"
            /\ UNCHANGED cLastErr
       ELSE /\ cFile' = [cFile EXCEPT ![Dst] = "absent"]
            /\ cMainPc' = "returned"
            /\ cLastErr' = ErrVal("main", cCopyFate)
    /\ UNCHANGED <<cCompressors, cExtOk, cMkdirOk, cLinkOk, cCopyFate, cFate,
                   cPc, cDone, cRecv, cLog, cPend, cSends, cOld, cLinkTried>>
    /\ UNCHANGED notCopy

\* n := f.numberOfCompressors(filepath.Ext(outfile)); return nil when n is
\* 0, else make(chan error, n) and one goroutine per compressor
CSpawn ==
    /\ cMainPc = "count"
    /\ IF cNumberOfCompressors = 0
       THEN /\ cMainPc' = "returned"
            /\ UNCHANGED cPc
       ELSE /\ cMainPc' = "collect"
            /\ cPc' = [m \in Methods |->
                         IF m \in cCompressors THEN "open" ELSE "off"]
    /\ UNCHANGED <<cCompressors, cExtOk, cMkdirOk, cLinkOk, cCopyFate, cFate,
                   cDone, cRecv, cLastErr, cLog, cPend, cSends, cOld, cFile,
                   cLinkTried, cCopyTried>>
    /\ UNCHANGED notCopy

\* compressFile: os.Open(filename) and os.OpenFile(outfile, ...|O_TRUNC);
\* an error of either returns before the cleanup is deferred
COpen(m) ==
    /\ cPc[m] = "open"
    /\ IF cFate[m] \in {"openIn", "openOut"}
       THEN /\ cPend' = [cPend EXCEPT ![m] = ErrVal(m, cFate[m])]
            /\ cPc' = [cPc EXCEPT ![m] = "send"]
            /\ UNCHANGED cFile
       ELSE /\ cFile' = [cFile EXCEPT ![m] = "partial"]
            /\ cPc' = [cPc EXCEPT ![m] = "compress"]
            /\ UNCHANGED cPend
    /\ UNCHANGED <<cCompressors, cExtOk, cMkdirOk, cLinkOk, cCopyFate, cFate,
                   cMainPc, cDone, cRecv, cLastErr, cLog, cSends, cOld,
                   cLinkTried, cCopyTried>>
    /\ UNCHANGED notCopy

DeferredKeep(failed) == IF failed THEN "partial" ELSE "complete"

\* the deferred function of compressFile: out.Close(), and os.Remove(outfile)
\* when compressFile returns an error
Deferred(failed) == IF failed THEN "absent" ELSE "complete"

\* compressFile: io.Copy(z, in), z.Close(), then the deferred function
CCompress(m) ==
    /\ cPc[m] = "compress"
    /\ cFile' = [cFile EXCEPT ![m] = Deferred(cFate[m] # "ok")]
    /\ cPend' = [cPend EXCEPT ![m] =
                   IF cFate[m] = "ok" THEN [from |-> m, err |-> "nil"]
                   ELSE ErrVal(m, cFate[m])]
    /\ cPc' = [cPc EXCEPT ![m] = "send"]
    /\ UNCHANGED <<cCompressors, cExtOk, cMkdirOk, cLinkOk, cCopyFate, cFate,
                   cMainPc, cDone, cRecv, cLastErr, cLog, cSends, cOld,
                   cLinkTried, cCopyTried>>
    /\ UNCHANGED notCopy

\* done <- compressFile(c, outfile)
CSend(m) ==
    /\ cPc[m] = "send"
    /\ Len(cDone) < cNumberOfCompressors
    /\ cDone' = Append(cDone, cPend[m])
    /\ cSends' = [cSends EXCEPT ![m] = @ + 1]
    /\ cPc' = [cPc EXCEPT ![m] = "exit"]
    /\ UNCHANGED <<cCompressors, cExtOk, cMkdirOk, cLinkOk, cCopyFate, cFate,
                   cMainPc, cRecv, cLastErr, cLog, cPend, cOld, cFile,
                   cLinkTried, cCopyTried>>
    /\ UNCHANGED notCopy

\* err := <-done  in the loop  for i := 0; i < n; i++
CCollect ==
    /\ cMainPc = "collect"
    /\ cRecv < cNumberOfCompressors
    /\ Len(cDone) > 0
    /\ cDone' = Tail(cDone)
    /\ cLog' = Append(cLog, Head(cDone))
    /\ cLastErr' = KeepFirstErr(cLastErr, Head(cDone))
    /\ cRecv' = cRecv + 1
    /\ UNCHANGED <<cCompressors, cExtOk, cMkdirOk, cLinkOk, cCopyFate, cFate,
                   cMainPc, cPc, cPend, cSends, cOld, cFile, cLinkTried,
                   cCopyTried>>
    /\ UNCHANGED notCopy

\* return lastErr
CReturn ==
    /\ cMainPc = "collect"
    /\ cRecv = cNumberOfCompressors
    /\ cMainPc' = "returned"
    /\ UNCHANGED <<cCompressors, cExtOk, cMkdirOk, cLinkOk, cCopyFate, cFate,
                   cPc, cDone, cRecv, cLastErr, cLog, cPend, cSends, cOld,
                   cFile, cLinkTried, cCopyTried>>
    /\ UNCHANGED notCopy

CopyNext ==
    \/ CMkdir
    \/ CLink
    \/ CCopy
    \/ CSpawn
    \/ \E m \in Methods : COpen(m)
    \/ \E m \in Methods : CCompress(m)
    \/ \E m \in Methods : CSend(m)
    \/ CCollect
    \/ CReturn

\* no CopyFile call is in progress
CopyOff ==
    /\ cCompressors = {}
    /\ cExtOk = FALSE
    /\ cMkdirOk = TRUE
    /\ cLinkOk = TRUE
    /\ cCopyFate = "ok"
    /\ cFate = [m \in Methods |-> "ok"]
    /\ cMainPc = "off"
    /\ cPc = [m \in Methods |-> "off"]
    /\ cDone = <<>>
    /\ cRecv = 0
    /\ cLastErr = NilVal
    /\ cLog = <<>>
    /\ cPend = [m \in Methods |-> NilVal]
    /\ cSends = [m \in Methods |-> 0]
    /\ cOld = "absent"
    /\ cFile = [w \in {Dst} \cup Methods |-> "absent"]
    /\ cLinkTried = FALSE
    /\ cCopyTried = FALSE

\* =============================================================== LoadPage
\* the goroutines that call LoadPage, and the full paths they load
Loaders == {1, 2}

Paths == {"a.md", "b.md"}

Sizes == {10, 20}

Modes == {"rw", "ro"}

\* os.FileInfo as far as metafile.Changed reads it
Fp(file) == [mtime |-> file.mtime, size |-> file.size, mode |-> file.mode]

NoFp == [mtime |-> -1, size |-> 0, mode |-> None]

NoMeta == [ver |-> 0, ok |-> FALSE]

\* no *Page: a nil pointer
NoPage == [id |-> 0, fi |-> NoFp, body |-> <<0, 0>>]

NoRet == [page |-> NoPage, err |-> None]

ChangedNoMode(file, fi) ==
    \/ ~file.exists
    \/ fi.mtime # file.mtime
    \/ fi.size # file.size

\* metafile.Changed(name, fi): os.Stat fails, or the modification time, the
\* size or the mode differs
Changed(file, fi) ==
    \/ ~file.exists
    \/ fi.mtime # file.mtime
    \/ fi.size # file.size
    \/ fi.mode # file.mode

PageInit ==
    /\ pCacheOn \in BOOLEAN
    /\ pCache = [p \in Paths |-> NoPage]
    /\ pDisk = [p \in Paths |->
                  [exists |-> TRUE, mtime |-> 0, size |-> 10, mode |-> "rw",
                   ver |-> 0, ok |-> TRUE]]
    /\ pEdits = 0
    /\ pLoads = 0
    /\ pPc = [l \in Loaders |-> "idle"]
    /\ pPath = [l \in Loaders |-> "a.md"]
    /\ pId = [l \in Loaders |-> 0]
    /\ pSeen = [l \in Loaders |-> NoPage]
    /\ pMatch = [l \in Loaders |-> FALSE]
    /\ pFi = [l \in Loaders |-> NoFp]
    /\ pMeta = [l \in Loaders |-> NoMeta]
    /\ pNew = [l \in Loaders |-> NoPage]
    /\ pRet = [l \in Loaders |-> NoRet]
    /\ pHit = [l \in Loaders |-> FALSE]
    /\ pParsed = [l \in Loaders |-> FALSE]
    /\ pDirty = [l \in Loaders |-> FALSE]

\* a goroutine calls LoadPage(basedir, filename); pageCache != nil decides
\* whether the cache is asked
LoadPage(l, path) ==
    /\ pPc[l] = "idle"
    /\ pLoads < MaxLoads
    /\ pLoads' = pLoads + 1
    /\ pId' = [pId EXCEPT ![l] = pLoads + 1]
    /\ pPath' = [pPath EXCEPT ![l] = path]
    /\ pPc' = [pPc EXCEPT ![l] = IF pCacheOn THEN "get" ELSE "open"]
    /\ UNCHANGED <<pCacheOn, pCache, pDisk, pEdits, pSeen, pMatch, pFi,
                   pMeta, pNew, pRet, pHit, pParsed, pDirty>>
    /\ UNCHANGED notPage

\* page := pageCache.Get(fullname), under the mutex of the cache
CacheGet(l) ==
    /\ pPc[l] = "get"
    /\ pSeen' = [pSeen EXCEPT ![l] = pCache[pPath[l]]]
    /\ pPc' = [pPc EXCEPT ![l] =
                 IF pCache[pPath[l]] # NoPage THEN "changed" ELSE "open"]
    /\ UNCHANGED <<pCacheOn, pCache, pDisk, pEdits, pLoads, pPath, pId,
                   pMatch, pFi, pMeta, pNew, pRet, pHit, pParsed, pDirty>>
    /\ UNCHANGED notPage

\* if page != nil && !metafile.Changed(fullname, page.fi) { return page, nil }
CheckChanged(l) ==
    /\ pPc[l] = "changed"
    /\ pMatch' = [pMatch EXCEPT ![l] =
                    /\ pDisk[pPath[l]].exists
                    /\ Fp(pDisk[pPath[l]]) = pSeen[l].fi]
    /\ IF Changed(pDisk[pPath[l]], pSeen[l].fi)
       THEN /\ pPc' = [pPc EXCEPT ![l] = "open"]
            /\ UNCHANGED <<pRet, pHit>>
       ELSE /\ pPc' = [pPc EXCEPT ![l] = "ret"]
            /\ pRet' = [pRet EXCEPT ![l] = [page |-> pSeen[l], err |-> "nil"]]
            /\ pHit' = [pHit EXCEPT ![l] = TRUE]
    /\ UNCHANGED <<pCacheOn, pCache, pDisk, pEdits, pLoads, pPath, pId,
                   pSeen, pFi, pMeta, pNew, pParsed, pDirty>>
    /\ UNCHANGED notPage

\* metafile.Open(fullname): os.Open, f.Stat and readMeta
OpenFile(l) ==
    /\ pPc[l] = "open"
    /\ pParsed' = [pParsed EXCEPT ![l] = TRUE]
    /\ IF pDisk[pPath[l]].exists
       THEN /\ pFi' = [pFi EXCEPT ![l] = Fp(pDisk[pPath[l]])]
            /\ pMeta' = [pMeta EXCEPT ![l] =
                           [ver |-> pDisk[pPath[l]].ver,
                            ok |-> pDisk[pPath[l]].ok]]
            /\ pPc' = [pPc EXCEPT ![l] = "read"]
            /\ UNCHANGED pRet
       ELSE /\ pRet' = [pRet EXCEPT ![l] = [page |-> NoPage, err |-> "open"]]
            /\ pPc' = [pPc EXCEPT ![l] = "ret"]
            /\ UNCHANGED <<pFi, pMeta>>
    /\ UNCHANGED <<pCacheOn, pCache, pDisk, pEdits, pLoads, pPath, pId,
                   pSeen, pMatch, pNew, pHit, pDirty>>
    /\ UNCHANGED notPage

NewPageStatLate(l, content) ==
    [id |-> pId[l],
     fi |-> Fp(pDisk[pPath[l]]),
     body |-> <<pMeta[l].ver, content>>]

\* p = &Page{fi: f.FileInfo(), meta: meta, content: contentStr, ...}
NewPage(l, content) ==
    [id |-> pId[l],
     fi |-> pFi[l],
     body |-> <<pMeta[l].ver, content>>]

\* f.HasMeta(), f.Content() and markup.Process: a file that is no page, or
\* whose markup fails, ends the call with an error; else the Page is built.
\* The file is open: its content is read even when it was removed meanwhile.
ReadContent(l) ==
    /\ pPc[l] = "read"
    /\ IF pMeta[l].ok
       THEN /\ pNew' = [pNew EXCEPT ![l] = NewPage(l, pDisk[pPath[l]].ver)]
            /\ pPc' = [pPc EXCEPT ![l] = "put"]
            /\ UNCHANGED pRet
       ELSE /\ pRet' = [pRet EXCEPT ![l] = [page |-> NoPage, err |-> "parse"]]
            /\ pPc' = [pPc EXCEPT ![l] = "ret"]
            /\ UNCHANGED pNew
    /\ UNCHANGED <<pCacheOn, pCache, pDisk, pEdits, pLoads, pPath, pId,
                   pSeen, pMatch, pFi, pMeta, pHit, pParsed, pDirty>>
    /\ UNCHANGED notPage

\* if pageCache != nil { pageCache.Put(fullname, p) }; return p, nil
CachePut(l) ==
    /\ pPc[l] = "put"
    /\ pCache' = IF pCacheOn THEN [pCache EXCEPT ![pPath[l]] = pNew[l]]
                 ELSE pCache
    /\ pRet' = [pRet EXCEPT ![l] = [page |-> pNew[l], err |-> "nil"]]
    /\ pPc' = [pPc EXCEPT ![l] = "ret"]
    /\ UNCHANGED <<pCacheOn, pDisk, pEdits, pLoads, pPath, pId, pSeen,
                   pMatch, pFi, pMeta, pNew, pHit, pParsed, pDirty>>
    /\ UNCHANGED notPage

\* the caller has the result of LoadPage; the locals of the call are gone
LoadPageDone(l) ==
    /\ pPc[l] = "ret"
    /\ pPc' = [pPc EXCEPT ![l] = "idle"]
    /\ pPath' = [pPath EXCEPT ![l] = "a.md"]
    /\ pId' = [pId EXCEPT ![l] = 0]
    /\ pSeen' = [pSeen EXCEPT ![l] = NoPage]
    /\ pMatch' = [pMatch EXCEPT ![l] = FALSE]
    /\ pFi' = [pFi EXCEPT ![l] = NoFp]
    /\ pMeta' = [pMeta EXCEPT ![l] = NoMeta]
    /\ pNew' = [pNew EXCEPT ![l] = NoPage]
    /\ pRet' = [pRet EXCEPT ![l] = NoRet]
    /\ pHit' = [pHit EXCEPT ![l] = FALSE]
    /\ pParsed' = [pParsed EXCEPT ![l] = FALSE]
    /\ pDirty' = [pDirty EXCEPT ![l] = FALSE]
    /\ UNCHANGED <<pCacheOn, pCache, pDisk, pEdits, pLoads>>
    /\ UNCHANGED notPage

\* the source tree changes under the program: a file is rewritten (new
\* content, new modification time, any size), touched (new modification
\* time), its mode is changed, or it is removed. The modification time is the
\* clock of the file system, which does not go back.
DiskEdit(path) ==
    /\ pEdits < MaxEdits
    /\ pEdits' = pEdits + 1
    /\ \/ \E s \in Sizes, k \in BOOLEAN :
            pDisk' = [pDisk EXCEPT ![path] =
                        [exists |-> TRUE, mtime |-> pEdits + 1, size |-> s,
                         mode |-> @.mode, ver |-> pEdits + 1, ok |-> k]]
       \/ /\ pDisk[path].exists
          /\ pDisk' = [pDisk EXCEPT ![path].mtime = pEdits + 1]
       \/ /\ pDisk[path].exists
          /\ \E m \in Modes \ {pDisk[path].mode} :
               pDisk' = [pDisk EXCEPT ![path].mode = m]
       \/ /\ pDisk[path].exists
          /\ pDisk' = [pDisk EXCEPT ![path].exists = FALSE]
    /\ pDirty' = [l \in Loaders |->
                    pDirty[l] \/ (pPc[l] # "idle" /\ pPath[l] = path)]
    /\ UNCHANGED <<pCacheOn, pCache, pLoads, pPc, pPath, pId, pSeen, pMatch,
                   pFi, pMeta, pNew, pRet, pHit, pParsed>>
    /\ UNCHANGED notPage

PageNext ==
    \/ \E l \in Loaders, path \in Paths : LoadPage(l, path)
    \/ \E l \in Loaders : CacheGet(l)
    \/ \E l \in Loaders : CheckChanged(l)
    \/ \E l \in Loaders : OpenFile(l)
    \/ \E l \in Loaders : ReadContent(l)
    \/ \E l \in Loaders : CachePut(l)
    \/ \E l \in Loaders : LoadPageDone(l)
    \/ \E path \in Paths : DiskEdit(path)

\* no LoadPage call was made; EnableCache was not called: pageCache is nil
PageOff ==
    /\ pCacheOn = FALSE
    /\ pCache = [p \in Paths |-> NoPage]
    /\ pDisk = [p \in Paths |->
                  [exists |-> TRUE, mtime |-> 0, size |-> 10, mode |-> "rw",
                   ver |-> 0, ok |-> TRUE]]
    /\ pEdits = 0
    /\ pLoads = 0
    /\ pPc = [l \in Loaders |-> "idle"]
    /\ pPath = [l \in Loaders |-> "a.md"]
    /\ pId = [l \in Loaders |-> 0]
    /\ pSeen = [l \in Loaders |-> NoPage]
    /\ pMatch = [l \in Loaders |-> FALSE]
    /\ pFi = [l \in Loaders |-> NoFp]
    /\ pMeta = [l \in Loaders |-> NoMeta]
    /\ pNew = [l \in Loaders |-> NoPage]
    /\ pRet = [l \in Loaders |-> NoRet]
    /\ pHit = [l \in Loaders |-> FALSE]
    /\ pParsed = [l \in Loaders |-> FALSE]
    /\ pDirty = [l \in Loaders |-> FALSE]

\* ============================================================== fspoll
\* the watched tree: the directory given to Watch and what can be below it
R == <<"r">>

RA == <<"r", "/", "a">>

RT == <<"r", "/", "t">>

RD == <<"r", "/", "d">>

RDT == <<"r", "/", "d", "/", "t">>

Nodes == {R, RA, RT, RD, RDT}

DirNodes == {R, RD}

\* the exclusion globs a watcher can be given
GlobPool == {<<"t">>, <<"r", "/", "d">>, <<"r", "/", "*">>}

\* index of the last separator of a path, 0 if it has none
LastSlash(p) ==
    IF \E i \in 1..Len(p) : p[i] = "/"
    THEN CHOOSE i \in 1..Len(p) :
             p[i] = "/" /\ \A j \in (i + 1)..Len(p) : p[j] # "/"
    ELSE 0

\* fi.Name(): the base name of a path
Base(p) == SubSeq(p, LastSlash(p) + 1, Len(p))

\* the directory a path is in
Parent(p) == SubSeq(p, 1, LastSlash(p) - 1)

\* a path and the directories above it, up to the watched directory
RECURSIVE UpTo(_)
UpTo(p) == IF LastSlash(p) = 0 THEN {p} ELSE {p} \cup UpTo(Parent(p))

\* filepath.Match(pattern, name): a star matches any sequence of characters
\* that holds no separator, any other character matches itself
RECURSIVE Match(_, _)
Match(pattern, name) ==
    IF pattern = <<>> THEN name = <<>>
    ELSE IF Head(pattern) = "*"
    THEN \/ Match(Tail(pattern), name)
         \/ /\ name # <<>>
            /\ Head(name) # "/"
            /\ Match(pattern, Tail(name))
    ELSE /\ name # <<>>
         /\ Head(name) = Head(pattern)
         /\ Match(Tail(pattern), Tail(name))

\* the loop over w.excludeGlobs in the walk function of getState
Excluded(globs, p) ==
    \E glob \in globs : Match(glob, p) \/ Match(glob, Base(p))

IsDir(mode) == mode \in {"d", "dx"}

\* os.FileInfo as far as check reads it
Fi(node) == [mode |-> node.mode, mtime |-> node.mtime, size |-> node.size]

RecordedNoSkipDir(fs, globs, p) ==
    /\ \A q \in UpTo(p) : fs[q].exists
    /\ ~Excluded(globs, p)

\* filepath.Walk reaches a path when it exists and no directory above it was
\* skipped; getState records it unless it matches an exclusion glob itself
Recorded(fs, globs, p) ==
    \A q \in UpTo(p) : fs[q].exists /\ ~Excluded(globs, q)

\* w.getState(): the snapshot of the watched tree
getState(fs, globs) ==
    [p \in {n \in Nodes : Recorded(fs, globs, n)} |-> Fi(fs[p])]

DirsByTime(ofi) == FALSE

\* if !ofi.IsDir(): only a non-directory has its time and size compared
DirsByModeOnly(ofi) == IsDir(ofi.mode)

\* the comparisons of Watcher.check, in the order of the code
HasChange(state, ns) ==
    IF Cardinality(DOMAIN ns) # Cardinality(DOMAIN state) THEN TRUE
    ELSE \/ \E path \in DOMAIN ns :
              \/ path \notin DOMAIN state
              \/ /\ path \in DOMAIN state
                 /\ \/ state[path].mode # ns[path].mode
                    \/ /\ ~DirsByModeOnly(state[path])
                       /\ \/ state[path].mtime # ns[path].mtime
                          \/ state[path].size # ns[path].size
         \/ \E opath \in DOMAIN state : opath \notin DOMAIN ns

\* seconds
DefaultInterval == 1

SleepAfter == 300

WatchIntervalOf(interval) == IF interval = 0 THEN DefaultInterval ELSE interval

\* Watch: the sleepInterval the Watcher is built with
WatchSleepIntervalOf(interval, sleepInterval) ==
    IF sleepInterval < 0 THEN WatchIntervalOf(interval)
    ELSE IF sleepInterval = 0 THEN DefaultInterval * 5
    ELSE sleepInterval

\* the arguments interval and sleepInterval of the watchers that are run
PollArgs == {<<100, -1>>, <<100, 500>>}

\* time since lastChangeTime, as far as the comparison with SleepAfter can
\* tell values apart
Later(elapsed, d) ==
    IF elapsed + d > SleepAfter THEN SleepAfter + 1 ELSE elapsed + d

InitialTree ==
    [n \in Nodes |->
       [exists |-> n \in {R, RA, RD},
        mode |-> IF n \in DirNodes THEN "d" ELSE "rw",
        mtime |-> 0,
        size |-> 1]]

\* Watch(dir, excludeGlobs, interval, sleepInterval) has returned a Watcher:
\* the initial state is taken and the goroutine running start() is at the top
\* of its loop, lastChangeTime being now
PollInit ==
    /\ fGlobs \in {{}} \cup {{g} : g \in GlobPool}
    /\ fFs = InitialTree
    /\ fOps = 0
    /\ fState = getState(InitialTree, fGlobs)
    /\ fPc = "check"
    /\ \E a \in PollArgs :
         /\ fInterval = WatchIntervalOf(a[1])
         /\ fSleepInterval = WatchSleepIntervalOf(a[1], a[2])
    /\ fCur = fInterval
    /\ fElapsed = 0
    /\ fClosePc = "idle"
    /\ fErrSeen = FALSE
    /\ fTouched = FALSE

\* what a change of the tree at path p leaves behind: the path is marked as
\* touched unless it is excluded or below an excluded directory
Touch(p) == fTouched \/ \A q \in UpTo(p) : ~Excluded(fGlobs, q)

\* a file or directory is created; its directory gets a new modification time
Create(p) ==
    /\ p # R
    /\ ~fFs[p].exists
    /\ fFs[Parent(p)].exists
    /\ fOps' = fOps + 1
    /\ fFs' = [fFs EXCEPT ![p] = [exists |-> TRUE,
                                  mode |-> IF p \in DirNodes THEN "d" ELSE "rw",
                                  mtime |-> fOps + 1,
                                  size |-> 1],
                          ![Parent(p)].mtime = fOps + 1]
    /\ fTouched' = Touch(p)
    /\ UNCHANGED <<fGlobs, fState, fPc, fInterval, fSleepInterval, fCur,
                   fElapsed, fClosePc, fErrSeen>>
    /\ UNCHANGED notPoll

\* the changes of the tree while one Watcher polls it
FsCreate(p) == fOps < MaxFsOps /\ Create(p)

\* a file, or a directory with what is in it, is removed
Remove(p) ==
    /\ p # R
    /\ fFs[p].exists
    /\ fOps' = fOps + 1
    /\ fFs' = [n \in Nodes |->
                 IF p \in UpTo(n) THEN [fFs[n] EXCEPT !.exists = FALSE]
                 ELSE IF n = Parent(p) THEN [fFs[n] EXCEPT !.mtime = fOps + 1]
                 ELSE fFs[n]]
    /\ fTouched' = Touch(p)
    /\ UNCHANGED <<fGlobs, fState, fPc, fInterval, fSleepInterval, fCur,
                   fElapsed, fClosePc, fErrSeen>>
    /\ UNCHANGED notPoll

FsRemove(p) == fOps < MaxFsOps /\ Remove(p)

\* a file gets a new modification time, a new size or a new mode; a
\* directory a new mode
Modify(p) ==
    /\ fFs[p].exists
    /\ fOps' = fOps + 1
    /\ \/ /\ p \notin DirNodes
          /\ fFs' = [fFs EXCEPT ![p].mtime = fOps + 1]
       \/ /\ p \notin DirNodes
          /\ fFs' = [fFs EXCEPT ![p].size = 3 - @]
       \/ /\ p \notin DirNodes
          /\ fFs' = [fFs EXCEPT ![p].mode = IF @ = "rw" THEN "ro" ELSE "rw"]
       \/ /\ p \in DirNodes
          /\ fFs' = [fFs EXCEPT ![p].mode = IF @ = "d" THEN "dx" ELSE "d"]
    /\ fTouched' = Touch(p)
    /\ UNCHANGED <<fGlobs, fState, fPc, fInterval, fSleepInterval, fCur,
                   fElapsed, fClosePc, fErrSeen>>
    /\ UNCHANGED notPoll

FsModify(p) == fOps < MaxFsOps /\ Modify(p)

AfterErrorStop == "done"

StateAtEnd(state, ns) == IF HasChange(state, ns) THEN state ELSE ns

\* defer func() { w.state = ns }(): every return of check after the walk has
\* succeeded, with a change or without one, leaves the new state in w.state
StateDeferred(state, ns) == ns

\* case err != nil: w.Error <- err, then the select at the end of the loop
AfterError == "select"

\* hasChange, err := w.check() and the switch after it, up to the send.
\* filepath.Walk can fail (a directory that cannot be read): check returns
\* before w.state is replaced.
Check ==
    /\ fPc = "check"
    /\ \/ /\ fPc' = "sendErr"
          /\ UNCHANGED <<fState, fCur, fElapsed, fTouched>>
       \/ /\ fState' = StateDeferred(fState, getState(fFs, fGlobs))
          /\ fTouched' = FALSE
          /\ IF HasChange(fState, getState(fFs, fGlobs))
             THEN /\ fCur' = IF fElapsed > SleepAfter THEN fSleepInterval
                             ELSE fInterval
                  /\ fElapsed' = 0
                  /\ fPc' = "sendChange"
             ELSE /\ fPc' = "select"
                  /\ UNCHANGED <<fCur, fElapsed>>
    /\ UNCHANGED <<fGlobs, fFs, fOps, fInterval, fSleepInterval, fClosePc,
                   fErrSeen>>
    /\ UNCHANGED notPoll

\* a goroutine receives from w.Change
RecvChange ==
    /\ fPc = "sendChange"
    /\ fPc' = "select"
    /\ UNCHANGED <<fGlobs, fFs, fOps, fState, fInterval, fSleepInterval,
                   fCur, fElapsed, fClosePc, fErrSeen, fTouched>>
    /\ UNCHANGED notPoll

\* a goroutine receives from w.Error
RecvError ==
    /\ fPc = "sendErr"
    /\ fPc' = AfterError
    /\ fErrSeen' = TRUE
    /\ UNCHANGED <<fGlobs, fFs, fOps, fState, fInterval, fSleepInterval,
                   fCur, fElapsed, fClosePc, fTouched>>
    /\ UNCHANGED notPoll

\* case <-time.After(currentInterval): continue. A Close that is waiting is
\* taken first: its case is ready before the timer is.
Timeout ==
    /\ fPc = "select"
    /\ fClosePc # "closing"
    /\ fPc' = "check"
    /\ fElapsed' = Later(fElapsed, fCur)
    /\ UNCHANGED <<fGlobs, fFs, fOps, fState, fInterval, fSleepInterval,
                   fCur, fClosePc, fErrSeen, fTouched>>
    /\ UNCHANGED notPoll

\* a goroutine calls w.Close() and is at w.closed <- true
Close ==
    /\ fClosePc = "idle"
    /\ fClosePc' = "closing"
    /\ UNCHANGED <<fGlobs, fFs, fOps, fState, fPc, fInterval, fSleepInterval,
                   fCur, fElapsed, fErrSeen, fTouched>>
    /\ UNCHANGED notPoll

\* case <-w.closed: return; Close returns
Closed ==
    /\ fPc = "select"
    /\ fClosePc = "closing"
    /\ fPc' = "done"
    /\ fClosePc' = "closed"
    /\ UNCHANGED <<fGlobs, fFs, fOps, fState, fInterval, fSleepInterval,
                   fCur, fElapsed, fErrSeen, fTouched>>
    /\ UNCHANGED notPoll

\* the steps of the goroutine running start() and of Close
LoopStep == Check \/ Timeout \/ Closed

PollNext ==
    \/ \E p \in Nodes : FsCreate(p)
    \/ \E p \in Nodes : FsRemove(p)
    \/ \E p \in Nodes : FsModify(p)
    \/ Check
    \/ RecvChange
    \/ RecvError
    \/ Timeout
    \/ Close
    \/ Closed

\* no Watcher was made
PollOff ==
    /\ fGlobs = {}
    /\ fFs = InitialTree
    /\ fOps = 0
    /\ fState = getState(InitialTree, {})
    /\ fPc = "done"
    /\ fInterval = DefaultInterval
    /\ fSleepInterval = DefaultInterval
    /\ fCur = DefaultInterval
    /\ fElapsed = 0
    /\ fClosePc = "idle"
    /\ fErrSeen = FALSE
    /\ fTouched = FALSE

\* ========================================================== fspoll.Watch
\* Watch has not returned
NoWatcher == [interval |-> 0, sleepInterval |-> 0]

\* Watch is called with some interval and sleepInterval (in seconds)
WatchInit ==
    /\ aInterval \in 0..MaxInterval
    /\ aSleepInterval \in (0 - MaxSleepInterval)..MaxSleepInterval
    /\ aWatcher = NoWatcher

\* Watch(dir, excludeGlobs, interval, sleepInterval) builds the Watcher
Watch ==
    /\ aWatcher = NoWatcher
    /\ aWatcher' = [interval |-> WatchIntervalOf(aInterval),
                    sleepInterval |->
                        WatchSleepIntervalOf(aInterval, aSleepInterval)]
    /\ UNCHANGED <<aInterval, aSleepInterval>>
    /\ UNCHANGED notWatch

WatchNext == Watch

\* Watch is not called
WatchOff ==
    /\ aInterval = 0
    /\ aSleepInterval = 0
    /\ aWatcher = NoWatcher

\* ============================================================== assets
\* names of assets and of files, as the characters they are made of
AssetA == <<"a">>

AssetB == <<"b">>

AssetC == <<"c">>

\* the asset site.LoadAssets injects with SetStringAsset
AssetS == <<"s">>

File1 == <<"1">>

File2 == <<"2">>

\* the source files, which stay as they are
FileBytes == (File1 :> <<"x", "y">>) @@ (File2 :> <<"z">>)

\* $name: a reference to the result of another asset
Ref(name) == <<"$">> \o name

\* isBufferName(s)
\* isBufferName(s): len(s) > 0 && s[0] == bufSigil
isBufferName(s) == Len(s) > 0 /\ s[1] = "$"

\* the filters the assets file names, by asset name
FilterNames == (AssetA :> "wrap") @@ (AssetC :> "twice")

\* a minifier drops what does not matter to the reader of its output
Minified(ch) == ch # "y"

\* Filter.Apply of the filters in use
Apply(filterName, in) ==
    IF filterName = "wrap" THEN <<"(">> \o in \o <<")">>
    ELSE IF filterName = "min" THEN SelectSeq(in, Minified)
    ELSE in \o in

\* filters.Collection.ApplyFilter(key, in)
ApplyFilter(filters, key, in) ==
    IF key \notin DOMAIN filters THEN in ELSE Apply(filters[key], in)

\* utils.Hash, as the function of the input it is
Hash(input) == <<"#">> \o input

\* utils.TemplatedHash(template, input): every ":hash" of the template is
\* replaced by the hash of the input
TemplatedHashOfTemplate(template, input) ==
    IF template = <<>> THEN <<>>
    ELSE [i \in 1..Len(template) |->
            IF template[i] = ":hash" THEN Hash(template) ELSE <<template[i]>>]

\* utils.TemplatedHash: strings.Replace(template, ":hash", hs, -1)
TemplatedHash(template, input) ==
    IF template = <<>> THEN <<>>
    ELSE [i \in 1..Len(template) |->
            IF template[i] = ":hash" THEN Hash(input) ELSE <<template[i]>>]

SeqsUpTo(S, n) == UNION {[1..k -> S] : k \in 0..n}

\* an Asset as Load or SetStringAsset makes it
Declared(files, separator, outName) ==
    [files |-> files, separator |-> separator, outName |-> outName,
     result |-> <<>>, renderedName |-> <<>>, processed |-> FALSE, runs |-> 0]

\* SetStringAsset(name, data)
StringAsset(data) ==
    [files |-> <<>>, separator |-> <<>>, outName |-> <<"$">>,
     result |-> data, renderedName |-> <<>>, processed |-> TRUE, runs |-> 0]

\* the collections that are resolved: three assets declared in the assets
\* file, which refer to files, to each other and to the injected asset, and
\* with or without the injected asset
Collections ==
    {(AssetA :> Declared(fa, <<",">>, <<"o", ":hash">>))
       @@ (AssetB :> Declared(fb, <<>>, <<"$">>))
       @@ (AssetC :> Declared(fc, <<";">>, <<":hash", "c">>))
       @@ inj :
     fa \in SeqsUpTo({File1, Ref(AssetB), Ref(AssetC), Ref(AssetS)}, MaxFiles),
     fb \in SeqsUpTo({File2, Ref(AssetC)}, MaxFiles),
     fc \in SeqsUpTo({File1, File2}, MaxFiles),
     inj \in {<<>>, (AssetS :> StringAsset(<<"q">>))}}

\* errors, and what stands for no value returned yet
Ok == <<"nil">>

Running == <<"running">>

SeparatorAlways(i, n) == TRUE

\* if i != len(a.Files)-1 { buf.WriteString(separator) }
SeparatorAfter(i, n) == i # n

UseAsIs(refAsset) == FALSE

\* if !refAsset.processed { ... c.ProcessAsset(refAsset, filters) ... }
NeedsProcessing(refAsset) == ~refAsset.processed

NeverProcessed(a) == FALSE

\* if a.processed { return nil }
AlreadyProcessed(a) == a.processed

IsBufferedExact(a) == a.outName = <<"$">>

\* a.IsBuffered()
IsBuffered(a) == isBufferName(a.outName)

NotFoundSigil(name) == <<"not found", name>>

\* fmt.Errorf("asset %q not found", name[1:])
NotFound(name) == <<"not found", Tail(name)>>

RECURSIVE ProcessAsset(_, _)
RECURSIVE Concatenate(_, _, _, _)
\* the loop over a.Files of ProcessAsset from the i-th file on, buf holding
\* what was written before: the collection, the buffer and the error after it
Concatenate(c, n, i, buf) ==
    IF i > Len(c[n].files) THEN [c |-> c, buf |-> buf, err |-> Ok]
    ELSE LET name == c[n].files[i]
             sep == IF SeparatorAfter(i, Len(c[n].files))
                    THEN c[n].separator ELSE <<>>
         IN IF isBufferName(name)
            THEN IF Tail(name) \notin DOMAIN c
                 THEN [c |-> c, buf |-> buf, err |-> NotFound(name)]
                 ELSE LET r == IF NeedsProcessing(c[Tail(name)])
                               THEN ProcessAsset(c, Tail(name))
                               ELSE [c |-> c, err |-> Ok]
                      IN IF r.err # Ok
                         THEN [c |-> r.c, buf |-> buf, err |-> r.err]
                         ELSE Concatenate(r.c, n, i + 1,
                                  buf \o r.c[Tail(name)].result \o sep)
            ELSE IF name \notin DOMAIN rFiles
                 THEN [c |-> c, buf |-> buf, err |-> <<"open", name>>]
                 ELSE Concatenate(c, n, i + 1, buf \o rFiles[name] \o sep)

\* c.ProcessAsset(a, filters): the collection and the error after it
ProcessAsset(c, n) ==
    IF AlreadyProcessed(c[n]) THEN [c |-> c, err |-> Ok]
    ELSE LET r == Concatenate(c, n, 1, <<>>)
             b == ApplyFilter(rFilters, n, r.buf)
             rn == TemplatedHash(c[n].outName, b)
         IN IF r.err # Ok THEN [c |-> r.c, err |-> r.err]
            ELSE IF IsBuffered(c[n])
            THEN [c |-> [r.c EXCEPT ![n].result = b,
                                    ![n].runs = @ + 1,
                                    ![n].renderedName = <<>>,
                                    ![n].processed = TRUE],
                  err |-> Ok]
            ELSE IF rn = <<>>
            THEN [c |-> [r.c EXCEPT ![n].result = b,
                                    ![n].runs = @ + 1,
                                    ![n].renderedName = rn],
                  err |-> <<"empty name", n>>]
            ELSE [c |-> [r.c EXCEPT ![n].result = b,
                                    ![n].runs = @ + 1,
                                    ![n].renderedName = rn,
                                    ![n].processed = TRUE],
                  err |-> Ok]

\* what a resolution leaves of every asset
Resolved(c) ==
    [n \in DOMAIN c |->
       [result |-> c[n].result, renderedName |-> c[n].renderedName]]

\* assets.Load and SetStringAsset have made the collection; Process is at the
\* top of its loop
AssetsInit ==
    /\ rDecl \in Collections
    /\ rC = rDecl
    /\ rVisited = {}
    /\ rErr = Running
    /\ rRun = 1
    /\ rFirst = <<>>
    /\ rFiles = FileBytes
    /\ rFilters = FilterNames
    /\ rRendered = {}
    /\ rRenderErr = Running
    /\ rWritten = <<>>

\* one turn of the loop of Process: range c.assets yields the assets in any
\* order; ProcessAsset is called and an error ends Process
ProcessNext(n) ==
    /\ rErr = Running
    /\ n \in DOMAIN rC \ rVisited
    /\ rVisited' = rVisited \cup {n}
    /\ rC' = ProcessAsset(rC, n).c
    /\ rErr' = IF ProcessAsset(rC, n).err # Ok THEN ProcessAsset(rC, n).err
               ELSE IF rVisited' = DOMAIN rC THEN Ok
               ELSE Running
    /\ UNCHANGED <<rDecl, rRun, rFirst, rFiles, rFilters, rRendered,
                   rRenderErr, rWritten>>
    /\ UNCHANGED notAssets

\* the next build loads the same assets file again and resolves it again
Reload ==
    /\ rErr = Ok
    /\ rRun = 1
    /\ rFirst' = Resolved(rC)
    /\ rC' = rDecl
    /\ rVisited' = {}
    /\ rErr' = Running
    /\ rRun' = 2
    /\ UNCHANGED <<rDecl, rFiles, rFilters, rRendered, rRenderErr, rWritten>>
    /\ UNCHANGED notAssets

AssetsNext ==
    \/ \E n \in {AssetA, AssetB, AssetC, AssetS} : ProcessNext(n)
    \/ Reload

\* no collection is loaded
AssetsOff ==
    /\ rDecl = <<>>
    /\ rC = <<>>
    /\ rVisited = {}
    /\ rErr = Running
    /\ rRun = 1
    /\ rFirst = <<>>
    /\ rFiles = FileBytes
    /\ rFilters = FilterNames
    /\ rRendered = {}
    /\ rRenderErr = Running
    /\ rWritten = <<>>

\* -------------------------------------------------------------- assets render
\* The assets of one site through two builds: Process, then Render, then an
\* edit of a source file and the next build (runBuild in watch mode).

\* the edits of File2 between two builds: one that a minifier keeps and one
\* that it drops
FileEdits ==
    {FileBytes,
     [FileBytes EXCEPT ![File2] = <<"z", "w">>],
     [FileBytes EXCEPT ![File2] = <<"z", "y">>]}

\* the assets files of the sites: a base asset kept in memory, an asset that
\* includes it or an asset that does not exist, and an asset of one file,
\* with templates with and without :hash, with more after the sigil, and empty
RenderCollections ==
    {(AssetA :> Declared(fa, <<",">>, oa))
       @@ (AssetB :> Declared(<<File2>>, <<>>, ob))
       @@ (AssetC :> Declared(<<File1>>, <<";">>, oc)) :
     fa \in {<<Ref(AssetB)>>, <<File1, Ref(AssetB)>>, <<Ref(AssetS)>>},
     oa \in {<<"o", ":hash">>, <<"o">>},
     ob \in {<<"$">>, <<"$", "x">>},
     oc \in {<<":hash", "c">>, <<>>}}

\* the filters that the assets files declare
RenderFilters == {<<>>, (AssetB :> "min"), (AssetA :> "wrap")}

RenderInit ==
    /\ rDecl \in RenderCollections
    /\ rC = rDecl
    /\ rVisited = {}
    /\ rErr = Running
    /\ rRun = 1
    /\ rFirst = <<>>
    /\ rFiles = FileBytes
    /\ rFilters \in RenderFilters
    /\ rRendered = {}
    /\ rRenderErr = Running
    /\ rWritten = <<>>

RenderAnyTime == TRUE

\* runBuild: if err := s.ProcessAssets(); err != nil { return err } and then
\* s.RenderAssets()
RenderReady == rErr = Ok

\* one turn of the loop of Render: a buffered asset is passed over, any other
\* is written by RenderAsset under its rendered name, and an error of the
\* writer ends Render
RenderNext(n, ok) ==
    /\ RenderReady
    /\ rRenderErr = Running
    /\ n \in DOMAIN rC \ rRendered
    /\ IsBuffered(rC[n]) => ok
    /\ rRendered' = rRendered \cup {n}
    /\ rWritten' = IF ~IsBuffered(rC[n]) /\ ok
                   THEN (rC[n].renderedName :> rC[n].result) @@ rWritten
                   ELSE rWritten
    /\ rRenderErr' = IF ~ok THEN <<"write", n>>
                     ELSE IF rRendered' = DOMAIN rC THEN Ok
                     ELSE Running
    /\ UNCHANGED <<rDecl, rC, rVisited, rErr, rRun, rFirst, rFiles, rFilters>>
    /\ UNCHANGED notAssets

\* the build is over: Process or Render has returned an error, or Render is
\* through
BuildOver == rErr \notin {Running, Ok} \/ rRenderErr # Running

\* a source file is edited, or none is, and the next build loads the assets
\* file again
Rebuild(bytes) ==
    /\ BuildOver
    /\ rRun = 1
    /\ rFirst' = Resolved(rC)
    /\ rC' = rDecl
    /\ rVisited' = {}
    /\ rErr' = Running
    /\ rRun' = 2
    /\ rFiles' = bytes
    /\ rRendered' = {}
    /\ rRenderErr' = Running
    /\ rWritten' = <<>>
    /\ UNCHANGED <<rDecl, rFilters>>
    /\ UNCHANGED notAssets

RenderSiteNext ==
    \/ \E n \in {AssetA, AssetB, AssetC} : ProcessNext(n)
    \/ \E n \in {AssetA, AssetB, AssetC}, ok \in BOOLEAN : RenderNext(n, ok)
    \/ \E bytes \in FileEdits : Rebuild(bytes)

\* ---------------------------------------------------------------- assets load
\* One build from LoadPageFilters to RenderAssets: the page filters and the
\* assets file are loaded, then the collection is resolved and written.

\* the names under which init() of the filters has registered a maker
Makers == {"wrap", "min", "twice"}

\* the filter lines of the configurations: none, the name of a filter that is
\* registered and a name under which none is
Lines == {"nil", "wrap", "nope"}

\* the assets files
LoadDecls == SeqsUpTo([name : {AssetA, AssetB}, filter : Lines], MaxDecls)

\* the filters sections of the site configurations
PageConfigs ==
    {<<>>, ("md" :> "min"), ("md" :> "nope"),
     ("md" :> "min") @@ ("html" :> "nope")}

\* Collection.Add of the filters: Make returns nil for a name without maker
Add(filters, key, filterName) ==
    IF filterName \notin Makers
    THEN [filters |-> filters, err |-> <<"filter not found", filterName>>]
    ELSE [filters |-> (key :> filterName) @@ filters, err |-> Ok]

\* Collection.AddFromYAML for a line that is a string
AddFromYAML(filters, key, line) == Add(filters, key, line)

LoadInit ==
    /\ lPc = "pagefilters"
    /\ lDecls \in LoadDecls
    /\ lPageCfg \in PageConfigs
    /\ lI = 1
    /\ lAssets = <<>>
    /\ lFilters = <<>>
    /\ lPageFilters = <<>>
    /\ lErr = Running

\* Site.LoadPageFilters: the error of AddFromYAML for any extension is
\* returned and ends the build
LoadPageFilters ==
    /\ lPc = "pagefilters"
    /\ IF \E e \in DOMAIN lPageCfg : lPageCfg[e] \notin Makers
       THEN /\ \E e \in DOMAIN lPageCfg :
                 /\ lPageCfg[e] \notin Makers
                 /\ lErr' = AddFromYAML(<<>>, e, lPageCfg[e]).err
            /\ lPc' = "failed"
            /\ UNCHANGED lPageFilters
       ELSE /\ lPageFilters' = lPageCfg
            /\ lPc' = "load"
            /\ UNCHANGED lErr
    /\ UNCHANGED <<lDecls, lPageCfg, lI, lAssets, lFilters>>
    /\ UNCHANGED rvars
    /\ UNCHANGED notLoad

ExistsNever(assets, name) == FALSE

\* if _, exists := c.assets[v.Name]; exists
Exists(assets, name) == name \in DOMAIN assets

\* one turn of the loop of Load: a name that is in the map already ends Load
\* with an error and no collection; else the asset is put in the map and its
\* filter line, if it has one, is given to AddFromYAML, whose error is dropped
LoadStep ==
    /\ lPc = "load"
    /\ lI <= Len(lDecls)
    /\ LET v == lDecls[lI]
       IN IF Exists(lAssets, v.name)
          THEN /\ lPc' = "failed"
               /\ lErr' = <<"duplicate asset name", v.name>>
               /\ lAssets' = <<>>
               /\ lFilters' = <<>>
               /\ UNCHANGED lI
          ELSE /\ lAssets' = (v.name :> Declared(<<File1>>, <<>>,
                                                 <<v.name[1], ":hash">>))
                                @@ lAssets
               /\ lFilters' = IF v.filter # "nil"
                              THEN AddFromYAML(lFilters, v.name,
                                               v.filter).filters
                              ELSE lFilters
               /\ lI' = lI + 1
               /\ UNCHANGED <<lPc, lErr>>
    /\ UNCHANGED <<lDecls, lPageCfg, lPageFilters>>
    /\ UNCHANGED rvars
    /\ UNCHANGED notLoad

\* Load returns the collection and LoadAssets makes it the collection of the
\* site, which ProcessAssets and RenderAssets go through
LoadReturn ==
    /\ lPc = "load"
    /\ lI > Len(lDecls)
    /\ lPc' = "loaded"
    /\ rDecl' = lAssets
    /\ rC' = lAssets
    /\ rFilters' = lFilters
    /\ rErr' = IF DOMAIN lAssets = {} THEN Ok ELSE Running
    /\ rRenderErr' = IF DOMAIN lAssets = {} THEN Ok ELSE Running
    /\ UNCHANGED <<rVisited, rRun, rFirst, rFiles, rRendered, rWritten>>
    /\ UNCHANGED <<lDecls, lPageCfg, lI, lAssets, lFilters, lPageFilters, lErr>>
    /\ UNCHANGED notLoad

LoadNext ==
    \/ LoadPageFilters
    \/ LoadStep
    \/ LoadReturn
    \/ \E n \in {AssetA, AssetB} : ProcessNext(n)
    \/ \E n \in {AssetA, AssetB}, ok \in BOOLEAN : RenderNext(n, ok)

\* nothing is being loaded
LoadOff ==
    /\ lPc = "off"
    /\ lDecls = <<>>
    /\ lPageCfg = <<>>
    /\ lI = 1
    /\ lAssets = <<>>
    /\ lFilters = <<>>
    /\ lPageFilters = <<>>
    /\ lErr = Running

\* ------------------------------------------------------------- assets calls
\* Process and the calls of ProcessAsset inside each other, for collections
\* whose back-references may go in circles. What is followed is which call is
\* made and which returns; the bytes do not decide that.

\* a file that does not exist
NoFile == <<"0">>

\* an asset with its sources, not processed
Unprocessed(files) == [files |-> files, processed |-> FALSE]

\* the collections: back-references to itself, to each other, to an asset that
\* does not exist, and files that exist or do not
CycleCollections ==
    {(AssetA :> Unprocessed(fa)) @@ (AssetB :> Unprocessed(fb))
       @@ (AssetC :> Unprocessed(fc)) :
     fa \in SeqsUpTo({File1, Ref(AssetA), Ref(AssetB)}, MaxFiles),
     fb \in SeqsUpTo({NoFile, Ref(AssetA), Ref(AssetC)}, MaxFiles),
     fc \in {<<File1>>, <<Ref(AssetC)>>, <<Ref(AssetS)>>, <<Ref(AssetB)>>}}

CycleInit ==
    /\ kC \in CycleCollections
    /\ kStack = <<>>
    /\ kVisited = {}
    /\ kErr = Running

\* the call that runs, its asset and the source its loop is at
Top == kStack[Len(kStack)]

TopFiles == kC[Top.asset].files

\* what the loop of Process goes on with after a call has returned nil
AfterCall(visited) == IF visited = DOMAIN kC THEN Ok ELSE Running

\* the frames below the one that runs, the one that called it having written
\* the result of the asset to its buffer and gone on to its next source
Returned ==
    IF Len(kStack) = 1 THEN <<>>
    ELSE [k \in 1..(Len(kStack) - 1) |->
            IF k = Len(kStack) - 1
            THEN [asset |-> kStack[k].asset, i |-> kStack[k].i + 1]
            ELSE kStack[k]]

\* a turn of the loop of Process: ProcessAsset is called for an asset, and
\* returns at once if the asset is processed
ProcessCall(n) ==
    /\ kErr = Running
    /\ kStack = <<>>
    /\ n \in DOMAIN kC \ kVisited
    /\ kVisited' = kVisited \cup {n}
    /\ IF AlreadyProcessed(kC[n])
       THEN kStack' = kStack /\ kErr' = AfterCall(kVisited')
       ELSE kStack' = <<[asset |-> n, i |-> 1]>> /\ kErr' = kErr
    /\ UNCHANGED kC
    /\ UNCHANGED notCycle

\* the source is a file that is read, or a back-reference to an asset that is
\* processed: its bytes are written to the buffer
ReadSource ==
    /\ kStack # <<>>
    /\ Top.i <= Len(TopFiles)
    /\ LET name == TopFiles[Top.i]
       IN IF isBufferName(name)
          THEN Tail(name) \in DOMAIN kC /\ ~NeedsProcessing(kC[Tail(name)])
          ELSE name \in DOMAIN rFiles
    /\ kStack' = [kStack EXCEPT ![Len(kStack)].i = @ + 1]
    /\ UNCHANGED <<kC, kVisited, kErr>>
    /\ UNCHANGED notCycle

\* the source is a file that cannot be read or a back-reference to an asset
\* that does not exist: the call returns the error, and so does every call
\* below it, and Process
FailSource ==
    /\ kStack # <<>>
    /\ Top.i <= Len(TopFiles)
    /\ LET name == TopFiles[Top.i]
       IN /\ IF isBufferName(name) THEN Tail(name) \notin DOMAIN kC
             ELSE name \notin DOMAIN rFiles
          /\ kErr' = IF isBufferName(name) THEN NotFound(name)
                     ELSE <<"open", name>>
    /\ kStack' = <<>>
    /\ UNCHANGED <<kC, kVisited>>
    /\ UNCHANGED notCycle

\* the source is a back-reference to an asset that is not processed:
\* c.ProcessAsset(refAsset, filters) is called, whatever calls are running
Recurse ==
    /\ kStack # <<>>
    /\ Len(kStack) < MaxDepth
    /\ Top.i <= Len(TopFiles)
    /\ isBufferName(TopFiles[Top.i])
    /\ Tail(TopFiles[Top.i]) \in DOMAIN kC
    /\ NeedsProcessing(kC[Tail(TopFiles[Top.i])])
    /\ kStack' = Append(kStack, [asset |-> Tail(TopFiles[Top.i]), i |-> 1])
    /\ UNCHANGED <<kC, kVisited, kErr>>
    /\ UNCHANGED notCycle

\* the loop over the sources is through: the asset is marked processed and
\* the call returns nil
Return ==
    /\ kStack # <<>>
    /\ Top.i > Len(TopFiles)
    /\ kC' = [kC EXCEPT ![Top.asset].processed = TRUE]
    /\ kStack' = Returned
    /\ kErr' = IF Len(kStack) = 1 THEN AfterCall(kVisited) ELSE kErr
    /\ UNCHANGED kVisited
    /\ UNCHANGED notCycle

CycleNext ==
    \/ \E n \in {AssetA, AssetB, AssetC} : ProcessCall(n)
    \/ ReadSource
    \/ FailSource
    \/ Recurse
    \/ Return

\* no call is made
CycleOff ==
    /\ kC = <<>>
    /\ kStack = <<>>
    /\ kVisited = {}
    /\ kErr = Running

\* ---------------------------------------------------------------- task pool
\* One pool from NewPool to the return of Wait: the caller submits tasks with
\* Add and then waits; the workers run the tasks.

Tasks == 1..NTasks

\* the tasks that were submitted with Add
Submitted == 1..(qNext - 1)

PoolInit ==
    /\ qState = [t \in Tasks |-> "new"]
    /\ qAddRet = [t \in Tasks |-> "none"]
    /\ qDone = <<>>
    /\ qErr = 0
    /\ qNext = 1
    /\ qPc = "adding"
    /\ qWaitRet = 0

\* Add(task): the task is handed to the workers, and Add returns whether no
\* task has failed so far; it does not wait for a worker
PoolAdd ==
    /\ qPc = "adding"
    /\ qNext <= NTasks
    /\ qState' = [qState EXCEPT ![qNext] = "queued"]
    /\ qAddRet' = [qAddRet EXCEPT ![qNext] = IF qErr = 0 THEN "true" ELSE "false"]
    /\ qNext' = qNext + 1
    /\ UNCHANGED <<qDone, qErr, qPc, qWaitRet>>
    /\ UNCHANGED notPool

\* the caller has no more tasks, or stops after an Add that returned false
\* (if !pool.Add(...) { break }), and calls Wait
PoolWait ==
    /\ qPc = "adding"
    /\ qPc' = "waiting"
    /\ UNCHANGED <<qState, qAddRet, qDone, qErr, qNext, qWaitRet>>
    /\ UNCHANGED notPool

\* a worker that is free takes a task
PoolStart(t) ==
    /\ qState[t] = "queued"
    /\ Cardinality({u \in Tasks : qState[u] = "running"}) < NWorkers
    /\ qState' = [qState EXCEPT ![t] = "running"]
    /\ UNCHANGED <<qAddRet, qDone, qErr, qNext, qPc, qWaitRet>>
    /\ UNCHANGED notPool

LastError(err, t) == t

\* the pool keeps the first error
FirstError(err, t) == IF err = 0 THEN t ELSE err

\* a task returns, with an error or without
PoolFinish(t, ok) ==
    /\ qState[t] = "running"
    /\ qState' = [qState EXCEPT ![t] = IF ok THEN "ok" ELSE "failed"]
    /\ qDone' = Append(qDone, t)
    /\ qErr' = IF ok THEN qErr ELSE FirstError(qErr, t)
    /\ UNCHANGED <<qAddRet, qNext, qPc, qWaitRet>>
    /\ UNCHANGED notPool

NoneRunning == \A t \in Tasks : qState[t] # "running"

\* every task that was submitted has finished
AllFinished == \A t \in Submitted : qState[t] \in {"ok", "failed"}

\* Wait returns the error that the pool holds
PoolWaitReturn ==
    /\ qPc = "waiting"
    /\ AllFinished
    /\ qPc' = "returned"
    /\ qWaitRet' = qErr
    /\ UNCHANGED <<qState, qAddRet, qDone, qErr, qNext>>
    /\ UNCHANGED notPool

PoolNext ==
    \/ PoolAdd
    \/ PoolWait
    \/ \E t \in Tasks : PoolStart(t)
    \/ \E t \in Tasks, ok \in BOOLEAN : PoolFinish(t, ok)
    \/ PoolWaitReturn

\* there is no pool
PoolOff ==
    /\ qState = <<>>
    /\ qAddRet = <<>>
    /\ qDone = <<>>
    /\ qErr = 0
    /\ qNext = 1
    /\ qPc = "off"
    /\ qWaitRet = 0

\* --------------------------------------------------------------- hash cache
\* One Cache from New on; Seen holds the lock of the cache from its first
\* statement to its return, so every call is one step.

HashPaths == {"some/path", "another/path"}

HashContents == {"some content", "other content"}

\* c.contentHash(content): the MD5 sum, taken to differ for the contents in use
contentHash(content) == <<"md5", content>>

\* New()
HashInit ==
    /\ hM = <<>>
    /\ hCalls = <<>>

OnlyNew(ok, origHash, newHash) == ~ok

\* if !ok || origHash != newHash
Differs(ok, origHash, newHash) == ~ok \/ origHash # newHash

\* c.Seen(path, content)
Seen(path, content) ==
    /\ Len(hCalls) < MaxCalls
    /\ LET ok == path \in DOMAIN hM
           origHash == IF ok THEN hM[path] ELSE <<>>
           newHash == contentHash(content)
       IN IF Differs(ok, origHash, newHash)
          THEN /\ hM' = (path :> newHash) @@ hM
               /\ hCalls' = Append(hCalls, [path |-> path, content |-> content,
                                            ret |-> FALSE])
          ELSE /\ hM' = hM
               /\ hCalls' = Append(hCalls, [path |-> path, content |-> content,
                                            ret |-> TRUE])
    /\ UNCHANGED notHash

HashNext == \E path \in HashPaths, content \in HashContents : Seen(path, content)

\* there is no cache
HashOff ==
    /\ hM = <<>>
    /\ hCalls = <<>>

\* ------------------------------------------------------ runBuild with pools
\* One caller of Build, the builder goroutine, and the pools of the steps
\* that render in a pool: the steps of runBuild are those of the build
\* coordinator, RenderPosts, RenderPages and RenderTagsIndex being followed
\* task by task.

\* the steps that make a pool, submit their tasks to it and wait for it
PoolSteps == {"RenderPosts", "RenderPages", "RenderTagsIndex"}

\* runBuild is at a step that renders in a pool
AtPoolStep ==
    /\ builderPc = "run"
    /\ stage \in 1..NSteps
    /\ Steps[stage] \in PoolSteps
    /\ StepEnabled(stage)

\* a step of runBuild that makes no pool
RunPlainStep ==
    /\ stage \in 1..NSteps
    /\ ~AtPoolStep
    /\ RunBuildStep

\* pool := utils.NewPool()
RunPoolOpen ==
    /\ AtPoolStep
    /\ qPc \in {"off", "closed"}
    /\ qState' = [t \in Tasks |-> "new"]
    /\ qAddRet' = [t \in Tasks |-> "none"]
    /\ qDone' = <<>>
    /\ qErr' = 0
    /\ qNext' = 1
    /\ qPc' = "adding"
    /\ qWaitRet' = 0
    /\ UNCHANGED notPool

PoolFailed == qPc = "returned" \/ (qPc = "waiting" /\ qErr # 0)

\* return pool.Wait(): the step goes on with what Wait has returned
PoolReturned == qPc = "returned"

\* the step returns the error of Wait, or for RenderPages, when Wait has
\* returned nil, the error of the walk; runBuild returns the error of the step
\* or goes on to the next step
RunPoolClose(walkOk) ==
    /\ AtPoolStep
    /\ PoolReturned
    /\ walkOk \/ (Steps[stage] = "RenderPages" /\ qWaitRet = 0)
    /\ qPc' = "closed"
    /\ IF qWaitRet # 0 \/ ~walkOk
       THEN /\ builderPc' = AfterRunBuild(Steps[stage])
            /\ result' = [err |-> Steps[stage], by |-> trigBy]
            /\ active' = active - 1
            /\ stage' = 0
       ELSE /\ stage' = stage + 1
            /\ UNCHANGED <<builderPc, active, result>>
    /\ UNCHANGED <<callerPc, outstanding, got, trigBy, cfgSearch, cfgTagIndex,
                   cleanBeforeBuilding, owed, unsent>>
    /\ UNCHANGED <<qState, qAddRet, qDone, qErr, qNext, qWaitRet>>
    /\ UNCHANGED <<wvars, cvars, pvars, fvars, avars, rvars, lvars, kvars,
                   hvars, ovars, mvars, xvars>>

\* the pool of the step is in use
PoolOpen == qPc \in {"adding", "waiting", "returned"}

RunNext ==
    \/ BuildCall(1)
    \/ Trigger(1)
    \/ RunBuildStart
    \/ RunPlainStep
    \/ RunPoolOpen
    \/ PoolOpen /\ PoolAdd
    \/ PoolOpen /\ PoolWait
    \/ \E t \in Tasks : PoolOpen /\ PoolStart(t)
    \/ \E t \in Tasks, ok \in BOOLEAN : PoolOpen /\ PoolFinish(t, ok)
    \/ PoolOpen /\ PoolWaitReturn
    \/ \E walkOk \in BOOLEAN : RunPoolClose(walkOk)
    \/ RunBuildReturn
    \/ Result(1)
    \/ BuildCheck(1)
    \/ SearchDone(1)

\* -------------------------------------------------------------------- posts
\* One post file of the posts directory and the calls of LoadPost on it, one
\* after another as LoadPosts makes them. Strings are sequences of
\* characters; the date of a file name and of the front matter is written
\* with the two digits of its day, "dd-name.h" standing for
\* "2006-01-dd-name.html".

PostNames == {<<"0", "1", "-", "a", ".", "h">>,
              <<"0", "2", "-", "a", ".", "h">>,
              <<"x", "y", "-", "a", ".", "h">>,
              <<"a", ".", "h">>}

\* the value of 'date' in the front matter: none, a string, or a number
MetaDates == {<<"absent">>, <<"string", <<"0", "1">>>>,
              <<"string", <<"0", "2">>>>, <<"string", <<"x">>>>,
              <<"int", 1>>}

\* the value of 'tags' in the front matter: none, a string, a list of
\* strings, or a number
MetaTags == {<<"absent">>, <<"string", <<"a", ",", " ", "b">>>>,
             <<"list", << <<"b">>, <<"a">> >> >>, <<"int", 1>>}

\* s.Config.Permalink
PermalinkTemplate == <<":day", "/", ":name", "/">>

DigitOf == [c \in {"0", "1", "2"} |-> IF c = "0" THEN 0 ELSE IF c = "1" THEN 1 ELSE 2]

\* the zero time.Time, returned with an error
NoTime == 0

\* time.Parse("2006-01-02", s): the day the string names
ParseDate(s) ==
    IF /\ Len(s) = 2
       /\ s[1] \in DOMAIN DigitOf
       /\ s[2] \in DOMAIN DigitOf
    THEN 10 * DigitOf[s[1]] + DigitOf[s[2]]
    ELSE NoTime

\* utils.ParseAnyDate(s): the first template that parses s
ParseAnyDate(s) == ParseDate(s)

LastDot(name) ==
    IF \E i \in 1..Len(name) : name[i] = "."
    THEN CHOOSE i \in 1..Len(name) :
             name[i] = "." /\ \A j \in (i + 1)..Len(name) : name[j] # "."
    ELSE 0

\* basefile[:len(basefile)-len(path.Ext(basefile))]
StripExt(name) ==
    IF LastDot(name) = 0 THEN name ELSE SubSeq(name, 1, LastDot(name) - 1)

\* strings.Split(t, ",")
RECURSIVE Split(_)
Split(t) ==
    IF \E i \in 1..Len(t) : t[i] = ","
    THEN LET i == CHOOSE k \in 1..Len(t) :
                      t[k] = "," /\ \A j \in 1..(k - 1) : t[j] # ","
         IN <<SubSeq(t, 1, i - 1)>> \o Split(SubSeq(t, i + 1, Len(t)))
    ELSE <<t>>

\* strings.TrimSpace(v)
RECURSIVE TrimSpace(_)
TrimSpace(v) ==
    IF v = <<>> THEN v
    ELSE IF Head(v) = " " THEN TrimSpace(Tail(v))
    ELSE IF v[Len(v)] = " " THEN TrimSpace(SubSeq(v, 1, Len(v) - 1))
    ELSE v

\* the loop over replacements: strings.Replace(outname, v.template, v.rep, -1)
RECURSIVE FillOut(_, _)
FillOut(template, basefile) ==
    IF template = <<>> THEN <<>>
    ELSE (CASE Head(template) = ":day" -> SubSeq(basefile, 1, 2)
            [] Head(template) = ":name" -> SubSeq(basefile, 4, Len(basefile))
            [] OTHER -> <<Head(template)>>)
         \o FillOut(Tail(template), basefile)

\* path.Base(s): the last element of s, slashes at its end removed
RECURSIVE PathBase(_)
PathBase(str) ==
    IF str = <<>> THEN <<".">>
    ELSE IF str[Len(str)] = "/"
    THEN IF Len(str) = 1 THEN str
         ELSE PathBase(SubSeq(str, 1, Len(str) - 1))
    ELSE Base(str)

\* utils.CleanPermalink(s)
CleanPermalink(str) ==
    LET stripped == IF PathBase(str) \in {<<"index.html">>, <<"index.htm">>}
                    THEN SubSeq(str, 1, Len(str) - Len(PathBase(str)))
                    ELSE str
    IN IF Len(stripped) > 0 /\ stripped[1] # "/"
       THEN <<"/">> \o stripped
       ELSE stripped

\* utils.AddIndexIfNeeded(outname): "Add index.html if ends with slash."
AddIndexIfNeeded(outname) ==
    IF outname # <<>> /\ outname[Len(outname)] = "/"
    THEN outname \o <<"index.html">>
    ELSE outname

\* LoadPage on a cache miss: the Page parsed from the file
ParsedPage(file) ==
    [meta |-> [date |-> file.date, tags |-> file.tags,
               url |-> CleanPermalink(file.name), id |-> file.name,
               is_post |-> FALSE],
     Filename |-> file.name,
     url |-> CleanPermalink(file.name)]

NoPost == [Date |-> NoTime, url |-> <<>>, id |-> <<>>, tags |-> <<>>,
           Filename |-> <<>>]

\* LoadPost after LoadPage has returned page: the error and the Post it
\* returns, and the Page as it leaves it, which on a hit is the cached one
PostOf(filename, page) ==
    LET basefile == StripExt(Base(filename))
        fdate == ParseDate(SubSeq(basefile, 1, 2))
        md == page.meta.date
        failed(e, pg) == [err |-> e, post |-> NoPost, page |-> pg]
    IN IF Len(basefile) < 3 THEN failed("wrong post filename format", page)
       ELSE IF fdate = NoTime THEN failed("parsing time", page)
       ELSE IF md[1] = "string" /\ ParseAnyDate(md[2]) = NoTime
       THEN failed("failed to parse date", page)
       ELSE IF md[1] \notin {"absent", "string", "time"}
       THEN failed("'date' is not a string", page)
       ELSE
         LET \* case string: date = ParseAnyDate(d); case time.Time: nothing
             date == IF md[1] = "string" THEN ParseAnyDate(md[2]) ELSE fdate
             outname == FillOut(PermalinkTemplate, basefile)
             url == CleanPermalink(outname)
             meta1 == [page.meta EXCEPT !.date = <<"time", date>>,
                                        !.url = url,
                                        !.id = basefile,
                                        !.is_post = TRUE]
             mt == meta1.tags
         IN IF mt[1] \notin {"absent", "string", "list"}
            THEN failed("'tags' is not an array of strings or a string",
                        [page EXCEPT !.meta = meta1])
            ELSE
              LET tags == CASE mt[1] = "string" ->
                                 [i \in 1..Len(Split(mt[2])) |->
                                    TrimSpace(Split(mt[2])[i])]
                            [] mt[1] = "list" -> mt[2]
                            [] OTHER -> <<>>
                  meta2 == IF mt[1] = "absent" THEN meta1
                           ELSE [meta1 EXCEPT !.tags = <<"list", tags>>]
              IN [err |-> "nil",
                  post |-> [Date |-> date, url |-> url, id |-> basefile,
                            tags |-> tags,
                            Filename |-> AddIndexIfNeeded(outname)],
                  page |-> [meta |-> meta2,
                            Filename |-> AddIndexIfNeeded(outname),
                            url |-> url]]

\* EnableCache(value) was called, the post file is there and was not loaded
PostInit ==
    /\ oCacheOn \in BOOLEAN
    /\ oFile \in [name : PostNames, date : MetaDates, tags : MetaTags]
    /\ oCache = <<>>
    /\ oChanged = FALSE
    /\ oLoads = <<>>

\* page != nil && !metafile.Changed(fullname, page.fi)
CacheHit == oCacheOn /\ oCache # <<>> /\ ~oChanged

\* LoadPost(postsDir, relname, s.Config.Permalink): LoadPage returns the
\* cached Page or parses the file and puts the new Page into the cache; what
\* LoadPost writes into the Page it writes into the Page of the cache
LoadPost ==
    /\ Len(oLoads) < MaxPostLoads
    /\ LET page == IF CacheHit THEN oCache[1] ELSE ParsedPage(oFile)
           r == PostOf(oFile.name, page)
       IN /\ oLoads' = Append(oLoads, [err |-> r.err, post |-> r.post,
                                       hit |-> CacheHit])
          /\ oCache' = IF oCacheOn THEN <<r.page>> ELSE oCache
          /\ oChanged' = IF oCacheOn THEN FALSE ELSE oChanged
    /\ UNCHANGED <<oCacheOn, oFile>>
    /\ UNCHANGED notPost

\* the file is written again with what it held: its modification time is new
PostTouch ==
    /\ Len(oLoads) < MaxPostLoads
    /\ ~oChanged
    /\ oChanged' = TRUE
    /\ UNCHANGED <<oCacheOn, oFile, oCache, oLoads>>
    /\ UNCHANGED notPost

PostNext == LoadPost \/ PostTouch

\* no post is loaded
PostOff ==
    /\ oCacheOn = FALSE
    /\ oFile = [name |-> <<"a", ".", "h">>, date |-> <<"absent">>,
                tags |-> <<"absent">>]
    /\ oCache = <<>>
    /\ oChanged = FALSE
    /\ oLoads = <<>>

\* ------------------------------------------------------------------ sitemap
\* The sitemap of one Site over its builds: LoadConfig, the render steps,
\* whose tasks run on the workers of a pool and add their entries, and
\* RenderSitemap. Sitemap.Add appends to m.entries without a lock: the append
\* is a read of the slice followed by a write of the longer slice, and the
\* tasks of one step interleave between the two.

MapSteps == <<"posts", "pages", "tags">>

\* what the render steps render: two posts, a page and a tag index
StepItems == [posts |-> {"post1", "post2"}, pages |-> {"page1"},
              tags |-> {"tag1"}]

MapItems == StepItems.posts \cup StepItems.pages \cup StepItems.tags

NoSitemap == <<>>

\* sitemap.New()
NewSitemap == << <<>> >>

\* Open has returned: no build has run. The 'sitemap' value of the meta
\* of every post, page and tag is what its InSitemap returns.
SitemapInit ==
    /\ mIn \in [MapItems -> BOOLEAN]
    /\ mBuild = 0
    /\ mPc = "idle"
    /\ mConf \in BOOLEAN
    /\ mSitemap = IF mConf THEN NewSitemap ELSE NoSitemap
    /\ mTask = [i \in MapItems |-> "new"]
    /\ mRead = [i \in MapItems |-> <<>>]
    /\ mMapRendered = FALSE
    /\ mLast = "none"

\* runBuild up to the render steps. LoadConfig: s.Config = conf, and
\* if conf.Sitemap != "" { s.sitemap = sitemap.New() }
LoadConfig(sitemapName) ==
    /\ mPc = "idle"
    /\ mBuild < MaxBuilds
    /\ mBuild' = mBuild + 1
    /\ mConf' = sitemapName
    /\ mSitemap' = IF sitemapName THEN NewSitemap ELSE mSitemap
    /\ mTask' = [i \in MapItems |-> "new"]
    /\ mRead' = [i \in MapItems |-> <<>>]
    /\ mMapRendered' = FALSE
    /\ mLast' = "none"
    /\ mPc' = MapSteps[1]
    /\ UNCHANGED mIn
    /\ UNCHANGED notSitemap

\* the tasks of the step that are on a worker
OnWorker == {i \in MapItems : mTask[i] \in {"add", "append", "write"}}

\* a worker takes a task: RenderPost, RenderPage or RenderTag up to
\* if s.sitemap != nil { if p.InSitemap() {
TaskStart(i) ==
    /\ mPc \in DOMAIN StepItems
    /\ i \in StepItems[mPc]
    /\ mTask[i] = "new"
    /\ Cardinality(OnWorker) < NWorkers
    /\ mTask' = [mTask EXCEPT ![i] =
                   IF mSitemap # NoSitemap /\ mIn[i] THEN "add" ELSE "write"]
    /\ UNCHANGED <<mIn, mBuild, mPc, mConf, mSitemap, mRead, mMapRendered,
                   mLast>>
    /\ UNCHANGED notSitemap

\* Sitemap.Add: append reads m.entries
AddRead(i) ==
    /\ mTask[i] = "add"
    /\ mRead' = [mRead EXCEPT ![i] = mSitemap[1]]
    /\ mTask' = [mTask EXCEPT ![i] = "append"]
    /\ UNCHANGED <<mIn, mBuild, mPc, mConf, mSitemap, mMapRendered, mLast>>
    /\ UNCHANGED notSitemap

\* Sitemap.Add: m.entries = the slice that was read with the entry after it
AddWrite(i) ==
    /\ mTask[i] = "append"
    /\ mSitemap' = <<Append(mRead[i], i)>>
    /\ mTask' = [mTask EXCEPT ![i] = "write"]
    /\ UNCHANGED <<mIn, mBuild, mPc, mConf, mRead, mMapRendered, mLast>>
    /\ UNCHANGED notSitemap

\* the rest of the task: the layout is processed and s.fileWriter.WriteFile
\* writes the file, or one of the two fails
TaskWrite(i, ok) ==
    /\ mTask[i] = "write"
    /\ mTask' = [mTask EXCEPT ![i] = IF ok THEN "done" ELSE "failed"]
    /\ UNCHANGED <<mIn, mBuild, mPc, mConf, mSitemap, mRead, mMapRendered,
                   mLast>>
    /\ UNCHANGED notSitemap

\* pool.Wait() returns: every task that was submitted has finished, and all
\* were submitted unless one had failed. The step returns its error to
\* runBuild, which returns it or goes on.
StepWait ==
    /\ mPc \in DOMAIN StepItems
    /\ OnWorker = {}
    /\ LET failed == {i \in StepItems[mPc] : mTask[i] = "failed"}
           left == {i \in StepItems[mPc] : mTask[i] = "new"}
       IN /\ left # {} => failed # {}
          /\ IF failed # {}
             THEN mPc' = "idle" /\ mLast' = "error"
             ELSE /\ mLast' = mLast
                  /\ mPc' = CASE mPc = "posts" -> "pages"
                              [] mPc = "pages" -> "tags"
                              [] OTHER -> "sitemap"
    /\ UNCHANGED <<mIn, mBuild, mConf, mSitemap, mTask, mRead, mMapRendered>>
    /\ UNCHANGED notSitemap

\* RenderSitemap: if s.sitemap != nil, s.sitemap.Render and WriteFile to
\* filepath.Join(OutDirName, s.Config.Sitemap), which with an empty name is
\* the output directory and cannot be written as a file
RenderSitemap ==
    /\ mPc = "sitemap"
    /\ mPc' = "idle"
    /\ mMapRendered' = (mSitemap # NoSitemap)
    /\ mLast' = IF mSitemap # NoSitemap /\ ~mConf THEN "error" ELSE "nil"
    /\ UNCHANGED <<mIn, mBuild, mConf, mSitemap, mTask, mRead>>
    /\ UNCHANGED notSitemap

SitemapNext ==
    \/ \E sitemapName \in BOOLEAN : LoadConfig(sitemapName)
    \/ \E i \in MapItems : TaskStart(i)
    \/ \E i \in MapItems : AddRead(i)
    \/ \E i \in MapItems : AddWrite(i)
    \/ \E i \in MapItems, ok \in BOOLEAN : TaskWrite(i, ok)
    \/ StepWait
    \/ RenderSitemap

\* there is no Site
SitemapOff ==
    /\ mIn = [i \in MapItems |-> TRUE]
    /\ mBuild = 0
    /\ mPc = "off"
    /\ mConf = FALSE
    /\ mSitemap = NoSitemap
    /\ mTask = [i \in MapItems |-> "new"]
    /\ mRead = [i \in MapItems |-> <<>>]
    /\ mMapRendered = FALSE
    /\ mLast = "none"

\* ----------------------------------------------------------------- watching
\* Site.StartWatching: the Watcher of the site directory with its polling
\* goroutine, and the goroutine that receives from watcher.Change and
\* watcher.Error and calls s.Build(). Build is followed from its call to its
\* return, with the moment at which it has read the source tree.

\* excludeGlobs: the output directory, here r/d, and the base name t, which
\* stands for .git and .DS_Store
StartGlobs == {<<"r", "/", "d">>, <<"t">>}

\* the paths that are changed while the site is watched: a source file
WatchedNodes == {RA}

\* fspoll.Watch(s.BaseDir, excludeGlobs, 0, 0) has returned and the two
\* goroutines are started; the site is built from the tree as it is
WatchingInit ==
    /\ fGlobs = StartGlobs
    /\ fFs = InitialTree
    /\ fOps = 0
    /\ fState = getState(InitialTree, fGlobs)
    /\ fPc = "check"
    /\ fInterval = WatchIntervalOf(0)
    /\ fSleepInterval = WatchSleepIntervalOf(0, 0)
    /\ fCur = fInterval
    /\ fElapsed = 0
    /\ fClosePc = "idle"
    /\ fErrSeen = FALSE
    /\ fTouched = FALSE
    /\ xPc = "select"
    /\ xSeen = getState(InitialTree, fGlobs)
    /\ xBuilds = 0
    /\ xWaited = FALSE

OnChangeAnyTime == TRUE

\* the goroutine of StartWatching is at its select
AtSelect == xPc = "select"

\* case <-watcher.Change: the send of the polling goroutine is taken and
\* s.Build() is called
OnChange ==
    /\ fPc = "sendChange"
    /\ AtSelect
    /\ fPc' = "select"
    /\ xPc' = "reading"
    /\ xBuilds' = xBuilds + 1
    /\ UNCHANGED <<xSeen, xWaited>>
    /\ UNCHANGED <<fGlobs, fFs, fOps, fState, fInterval, fSleepInterval,
                   fCur, fElapsed, fClosePc, fErrSeen, fTouched>>
    /\ UNCHANGED notWatching

\* case err := <-watcher.Error: the error is logged
OnError ==
    /\ fPc = "sendErr"
    /\ xPc = "select"
    /\ fPc' = AfterError
    /\ fErrSeen' = TRUE
    /\ UNCHANGED <<xPc, xSeen, xBuilds, xWaited>>
    /\ UNCHANGED <<fGlobs, fFs, fOps, fState, fInterval, fSleepInterval,
                   fCur, fElapsed, fClosePc, fTouched>>
    /\ UNCHANGED notWatching

\* runBuild has loaded the sources: what it renders is the tree of this
\* moment
BuildReads ==
    /\ xPc = "reading"
    /\ xPc' = "rendering"
    /\ xSeen' = getState(fFs, fGlobs)
    /\ UNCHANGED <<xBuilds, xWaited>>
    /\ UNCHANGED fvars
    /\ UNCHANGED notWatching

\* s.Build() returns, with an error that is logged or without one, and the
\* goroutine is back at its select
BuildReturns ==
    /\ xPc = "rendering"
    /\ xPc' = "select"
    /\ xWaited' = (fPc = "sendChange")
    /\ UNCHANGED <<xSeen, xBuilds>>
    /\ UNCHANGED fvars
    /\ UNCHANGED notWatching

\* time.After(currentInterval) fires: the wait lasts currentInterval or,
\* the goroutine being kept from running, any time longer
WatchTimeout ==
    /\ fPc = "select"
    /\ fPc' = "check"
    /\ fElapsed' \in {fElapsed, SleepAfter + 1}
    /\ UNCHANGED <<fGlobs, fFs, fOps, fState, fInterval, fSleepInterval,
                   fCur, fClosePc, fErrSeen, fTouched>>
    /\ UNCHANGED notPoll

\* a file of the site is created, removed or written while it is watched
SourceChange(p) ==
    /\ fOps < MaxChanges
    /\ Create(p) \/ Remove(p) \/ Modify(p)

\* a poll whose walk succeeds
CheckOk == Check /\ fPc' # "sendErr"

\* the steps of the goroutine of StartWatching and of the Build it calls
WatcherStep == OnChange \/ OnError \/ BuildReads \/ BuildReturns

WatchingNext ==
    \/ \E p \in WatchedNodes : SourceChange(p)
    \/ Check
    \/ WatchTimeout
    \/ OnChange
    \/ OnError
    \/ BuildReads
    \/ BuildReturns

\* StartWatching was not called
WatchingOff ==
    /\ xPc = "off"
    /\ xSeen = getState(InitialTree, {})
    /\ xBuilds = 0
    /\ xWaited = FALSE

\* ------------------------------------------------------------ claims: build

\* C1: for any number of goroutines calling Site.Build concurrently, at most
\* one execution of runBuild is in progress at any moment, and it is the one
\* the builder goroutine is inside of.
C1_OneRunBuild ==
    /\ active \in {0, 1}
    /\ active = 1 <=> builderPc = "run"

\* two callers are inside Build at once while runBuild runs
C1_Witness ==
    /\ active = 1
    /\ \E c1, c2 \in Callers :
         c1 # c2 /\ callerPc[c1] = "recv" /\ callerPc[c2] = "send"

\* C2: the side effects of two Build calls never overlap: the search-index
\* emission of one Build call (generateSearchIndex) never runs while the
\* pipeline pass (runBuild) of another Build call is in progress.
C2_NoOverlap ==
    \A c \in Callers : ~(callerPc[c] = "search" /\ builderPc = "run")

\* C3 as stated: when two callers are inside Build at once and the builder is
\* about to send the result of the run that caller c1 triggered, the other
\* caller can be the one that receives it.
C3_OtherCanReceive ==
    \A c1, c2 \in Callers :
        (/\ c1 # c2
         /\ builderPc = "send"
         /\ result.by = c1
         /\ callerPc[c2] \in {"send", "recv"})
        => ENABLED Result(c2)

\* C3 as amended: also when callers invoke Site.Build concurrently, every
\* caller receives from buildErrors the result of the run that its own
\* trigger started, and at most one caller waits on buildErrors at a time.
C3_OwnResult ==
    /\ \A c \in Callers : got[c] # NoResult => got[c].by = c
    /\ \A c1, c2 \in Callers :
         callerPc[c1] = "recv" /\ callerPc[c2] = "recv" => c1 = c2
    /\ \A c \in Callers : callerPc[c] = "recv" => trigBy = c

\* a caller has its result while another caller is inside Build too
C3_Witness ==
    \E c1, c2 \in Callers :
        /\ c1 # c2
        /\ callerPc[c1] = "check"
        /\ got[c1].by = c1
        /\ callerPc[c2] = "send"

PairInv ==
    /\ owed \in {0, 1}
    /\ unsent \in {0, 1}
    /\ owed + unsent <= 1
    /\ builderPc = "recv" => owed = 0 /\ unsent = 0
    /\ \A c \in Callers :
         /\ outstanding[c] \in {0, 1}
         /\ outstanding[c] = 1 <=> callerPc[c] = "recv"
    /\ Cardinality({c \in Callers : outstanding[c] = 1}) = owed + unsent

\* C4: requests and results are paired 1:1: the builder runs one runBuild per
\* trigger it received and delivers one value for it, and a caller whose
\* trigger was accepted receives its result (runBuild terminating).
C4_Paired ==
    /\ []PairInv
    /\ \A c \in Callers : (callerPc[c] = "recv") ~> (callerPc[c] = "check")

\* a caller has received the result of a failed run, the builder is back at
\* the queue and another caller has its trigger pending
C4_Witness ==
    \E c1, c2 \in Callers :
        /\ c1 # c2
        /\ callerPc[c1] = "check"
        /\ got[c1].err # "nil"
        /\ builderPc = "recv"
        /\ callerPc[c2] = "send"

\* -------------------------------------------------------- claims: WriteFile

\* the first error among the values received from done, nil when none
RECURSIVE FirstErr(_)
FirstErr(log) ==
    IF log = <<>> THEN NilVal
    ELSE IF Head(log).err # "nil" THEN Head(log)
    ELSE FirstErr(Tail(log))

\* C5: WriteFile starts the primary write and one writer per configured
\* compressor when the extension is configured, only the primary write
\* otherwise, and returns only after every writer it started has finished,
\* on success and on failure alike.
C5_ReturnsAfterAll ==
    /\ (wMainPc \in {"collect", "returned"} /\ wMkdirOk) =>
         \A w \in Writers :
            wPc[w] # "off" <=>
               (w = Primary \/ (wExtOk /\ w \in wCompressors))
    /\ (wMainPc = "returned" /\ wMkdirOk) =>
         \A w \in Started : wPc[w] = "exit"

\* C6: if a compressed-variant writer fails while writing or closing, then
\* when WriteFile has returned its file path.<ext> does not exist while the
\* primary file exists with the complete data.
C6_CleanupPrimaryIntact ==
    \A m \in Methods :
        (/\ wMainPc = "returned"
         /\ m \in Started
         /\ wFate[m] \in {"write", "zclose", "close"}
         /\ wFate[Primary] = "ok")
        => (wFile[m] = "absent" /\ wFile[Primary] = "complete")

\* C7: WriteFile returns nil if and only if the primary write and every
\* compressed-variant write succeeded; otherwise it returns the error that
\* was reported first on done, and later errors are discarded.
C7_FirstError ==
    (wMainPc = "returned" /\ wMkdirOk) =>
        /\ wLastErr.err = "nil" <=> \A w \in Started : wFate[w] = "ok"
        /\ wLastErr = FirstErr(wLog)
        /\ wLastErr.err # "nil" =>
             /\ wLastErr.from \in Started
             /\ wFate[wLastErr.from] # "ok"

\* WriteFile has returned an error after it received the errors of two
\* different writers
C7_Witness ==
    /\ wMainPc = "returned"
    /\ wLastErr.err # "nil"
    /\ \E i, j \in 1..Len(wLog) :
         /\ i < j
         /\ wLog[i].err # "nil"
         /\ wLog[j].err # "nil"
         /\ wLog[i].from # wLog[j].from
         /\ wLastErr = wLog[i]

\* --------------------------------------------------------- claims: CopyFile

\* the compressor goroutines CopyFile has started
cStarted == {m \in Methods : cPc[m] # "off"}

\* the copy of CopyFile succeeded: by the link, or by the fallback copy
cCopied == cMkdirOk /\ (cLinkOk \/ cCopyFate = "ok")

\* what C8 says of linking, copying, starting the compressors and waiting
\* for them
C8_Common ==
    /\ cCopyTried => (cLinkTried /\ ~cLinkOk)
    /\ cStarted # {} => cCopied
    /\ (cMainPc = "returned" /\ cMkdirOk /\ ~cCopied) =>
         /\ cLastErr = ErrVal("main", cCopyFate)
         /\ cStarted = {}
    /\ (cMainPc \in {"collect", "returned"} /\ cCopied) =>
         cStarted = (IF cExtOk THEN cCompressors ELSE {})
    /\ (cMainPc = "returned" /\ cCopied) =>
         /\ \A m \in cStarted : cPc[m] = "exit" /\ cSends[m] = 1
         /\ Len(cLog) = Cardinality(cStarted)
         /\ cLastErr = FirstErr(cLog)
         /\ cLastErr.err = "nil" <=> \A m \in cStarted : cFate[m] = "ok"

\* C8 as stated: CopyFile tries a hard link first and copies only if linking
\* fails; if neither succeeds it returns the error and starts no compressor;
\* otherwise it starts one compressor worker per method, returns after all
\* of them have reported, returns the first error reported, and a
\* compressor that fails leaves no dst.<ext> file behind.
C8_NoFileLeftBehind ==
    /\ C8_Common
    /\ \A m \in Methods :
         (cMainPc = "returned" /\ m \in cStarted /\ cFate[m] # "ok")
         => cFile[m] = "absent"

\* C8 as amended: as C8, with one compressor worker per method when the
\* extension of dst is configured for compression and none otherwise, and
\* with: a compressor that fails after it has opened dst.<ext> for writing
\* leaves no dst.<ext> behind, and one that fails to open the source or
\* dst.<ext> leaves dst.<ext> as it was before the call.
C8_CopyFile ==
    /\ C8_Common
    /\ \A m \in Methods :
         (cMainPc = "returned" /\ m \in cStarted) =>
            /\ cFate[m] \in {"copy", "zclose", "close"} => cFile[m] = "absent"
            /\ cFate[m] \in {"openIn", "openOut"} => cFile[m] = cOld
            /\ cFate[m] = "ok" => cFile[m] = "complete"

\* CopyFile fell back to the copy, started two compressors and returned the
\* error of one that failed in io.Copy, whose file is gone, while the other
\* could not open its output and left the file of the earlier build
C8_Witness ==
    /\ cMainPc = "returned"
    /\ cCopyTried
    /\ cLastErr.err = "copy"
    /\ \E m1, m2 \in cStarted :
         /\ cFate[m1] = "copy" /\ cFile[m1] = "absent"
         /\ cFate[m2] = "openOut" /\ cFile[m2] = "stale"

\* ---------------------------------------------------------- claims: LoadPage
\* what a fresh parse of the file at path builds, apart from the identity of
\* the object
Parsed(path) == <<pDisk[path].ver, pDisk[path].ver>>

\* a LoadPage call that is about to return returned the cached Page exactly
\* when caching is enabled, pageCache.Get found an entry for the full path and
\* the entry's modification time, size and mode are those os.Stat found; a
\* call that returns the cached Page has not opened the file, every other call
\* has; with caching disabled the cache stays empty
C9_Returns ==
    /\ \A l \in Loaders :
         pPc[l] = "ret" =>
           /\ pHit[l] <=> (pCacheOn /\ pSeen[l] # NoPage /\ pMatch[l])
           /\ pHit[l] => /\ ~pParsed[l]
                         /\ pRet[l] = [page |-> pSeen[l], err |-> "nil"]
           /\ ~pHit[l] => pParsed[l]
    /\ ~pCacheOn => \A p \in Paths : pCache[p] = NoPage

\* the only step that changes the cache is the Put of a call whose parse
\* succeeded, with caching enabled: it replaces the entry of the full path
\* with the Page that call built, which carries the file info that call
\* observed when it opened the file
C9_Put ==
    /\ \A l \in Loaders :
         (pPc[l] = "put" /\ pPc'[l] = "ret") =>
           /\ pNew[l].id = pId[l]
           /\ pNew[l].fi = pFi[l]
           /\ pRet'[l] = [page |-> pNew[l], err |-> "nil"]
           /\ pCache' = IF pCacheOn
                        THEN [pCache EXCEPT ![pPath[l]] = pNew[l]]
                        ELSE pCache
    /\ pCache' # pCache =>
         \E l \in Loaders : pPc[l] = "put" /\ pPc'[l] = "ret" /\ pParsed[l]

\* C9: LoadPage returns the cached Page without parsing if and only if caching
\* is enabled, the cache holds an entry for the full path and the entry's
\* fingerprint (modification time, size, mode) equals that of the file on
\* disk; otherwise it parses, and with caching enabled and a successful parse
\* replaces the entry with the new Page and the newly observed fingerprint.
\* With caching disabled nothing is stored or returned from the cache.
C9_LoadPage == []C9_Returns /\ [][C9_Put]_vars

\* a call returns the Page an earlier call has put into the cache, and has
\* not opened the file
C9_Witness ==
    \E l \in Loaders :
        /\ pPc[l] = "ret"
        /\ pHit[l]
        /\ ~pParsed[l]
        /\ pRet[l].page = pCache[pPath[l]]
        /\ pRet[l].page.id # 0

\* an entry of the cache whose fingerprint is that of the file on disk holds
\* what a parse of that file builds
Coherent ==
    \A p \in Paths :
        (/\ pCache[p] # NoPage
         /\ pDisk[p].exists
         /\ pCache[p].fi = Fp(pDisk[p])) => pCache[p].body = Parsed(p)

\* no source file was changed since the program started
Static == pEdits = 0

\* C10: whatever the interleaving of the Get, parse and Put steps of two
\* LoadPage calls on one path, with caching enabled and the file not changed
\* while they run, each call returns a complete Page that is what a fresh
\* parse of the file builds, and the cache holds one complete entry for the
\* path; the calls differ from two calls in sequence only in that both may
\* parse the file.
C10_Concurrent ==
    pCacheOn =>
      /\ Coherent
      /\ \A l \in Loaders :
           (pPc[l] = "ret" /\ pRet[l].err = "nil" /\ ~pDirty[l]) =>
             /\ pRet[l].page.id # 0
             /\ pRet[l].page.fi = Fp(pDisk[pPath[l]])
             /\ pRet[l].page.body = Parsed(pPath[l])
             /\ Static =>
                  /\ pCache[pPath[l]].id # 0
                  /\ pCache[pPath[l]].fi = Fp(pDisk[pPath[l]])
                  /\ pCache[pPath[l]].body = Parsed(pPath[l])

\* two calls on one path have both parsed the unchanged file and built two
\* Pages; the cache holds the one that was put last
C10_Witness ==
    /\ pCacheOn
    /\ pPc[1] = "ret" /\ pPc[2] = "ret"
    /\ pPath[1] = pPath[2]
    /\ pParsed[1] /\ pParsed[2]
    /\ ~pDirty[1] /\ ~pDirty[2]
    /\ pRet[1].err = "nil" /\ pRet[2].err = "nil"
    /\ pRet[1].page.id # pRet[2].page.id
    /\ pCache[pPath[1]] = pRet[1].page

\* ------------------------------------------------------------ claims: fspoll
\* two snapshots differ: other paths, or a path of both with another mode
\* or, unless it is a directory, another modification time or size
Differ(old, new) ==
    \/ DOMAIN old # DOMAIN new
    \/ \E p \in DOMAIN old \cap DOMAIN new :
          \/ old[p].mode # new[p].mode
          \/ /\ ~IsDir(new[p].mode)
             /\ \/ old[p].mtime # new[p].mtime
                \/ old[p].size # new[p].size

\* a poll whose walk succeeded
Polled == fPc = "check" /\ fPc' \in {"sendChange", "select"}

\* C11: Watcher.check reports a change if and only if the fresh snapshot and
\* the stored one differ: in their paths, in the mode of a path of both, or
\* for a non-directory in its modification time or size.
C11_Check ==
    [][Polled =>
         /\ (fPc' = "sendChange") <=> Differ(fState, getState(fFs, fGlobs))
         /\ fState' = getState(fFs, fGlobs)]_vars

\* one file was added and the poll after it reports a change
C11_Witness ==
    /\ fPc = "sendChange"
    /\ fOps = 1
    /\ RT \in DOMAIN fState
    /\ fState[RT].mtime = 1

\* C12: a path that matches an exclusion glob, by its full path or its base
\* name, is in no snapshot, nor is anything below a directory that matches;
\* a poll reports a change only if a path that is not excluded has changed.
C12_Excluded ==
    /\ [](\A p \in DOMAIN fState : \A q \in UpTo(p) :
             \A glob \in fGlobs : ~Match(glob, q) /\ ~Match(glob, Base(q)))
    /\ [][(fPc = "check" /\ fPc' = "sendChange") => fTouched]_vars

\* an excluded file was created, which gave its directory a new time; the
\* poll after it has stored the new time of the directory and reported nothing
C12_Witness ==
    /\ fGlobs = {<<"t">>}
    /\ fFs[RT].exists
    /\ fFs[R].mtime > 0
    /\ fState[R].mtime = fFs[R].mtime
    /\ fPc = "select"
    /\ fOps = 1

\* C13: when more than SleepAfter has passed since the last change, the loop
\* waits sleepInterval between polls.
C13_IdleAfterQuiet ==
    (fPc = "select" /\ fElapsed > SleepAfter) => fCur = fSleepInterval

\* C14: a poll that detects a change records the time of the change and makes
\* interval the wait before the next poll, however long it was quiet before.
C14_ChangeResets ==
    [][(fPc = "check" /\ fPc' = "sendChange") =>
          fElapsed' = 0 /\ fCur' = fInterval]_vars

\* C15: Close returns in the end, wherever the loop is when it is called.
C15_CloseReturns == (fClosePc = "closing") ~> (fClosePc = "closed")

\* C16: a walk error is sent on Error and does not end the loop: the loop
\* only ends by Close, the stored snapshot is the one from before the failed
\* poll, and after the error was received the loop waits and polls again, a
\* difference found by a later poll being sent on Change.
C16_ErrorKeepsLoop ==
    /\ [](fPc = "done" => fClosePc = "closed")
    /\ [][/\ (fPc = "check" /\ fPc' = "sendErr") => fState' = fState
          /\ (fPc = "sendErr" /\ fPc' # fPc) => fPc' = "select"
          /\ (Polled /\ fErrSeen /\ Differ(fState, getState(fFs, fGlobs)))
               => fPc' = "sendChange"]_vars

\* an error was received and a later poll reports a change
C16_Witness == fErrSeen /\ fPc = "sendChange" /\ fClosePc = "idle"

\* C17: Watch makes 1 second the interval when interval is 0, 5 times the
\* interval the sleepInterval when sleepInterval is 0, and the interval the
\* sleepInterval when sleepInterval is negative.
C17_Defaults ==
    aWatcher # NoWatcher =>
      /\ aWatcher.interval = (IF aInterval = 0 THEN 1 ELSE aInterval)
      /\ aSleepInterval = 0 => aWatcher.sleepInterval = 5 * aWatcher.interval
      /\ aSleepInterval < 0 => aWatcher.sleepInterval = aWatcher.interval

\* ------------------------------------------------------------ claims: assets
\* the parts joined, with sep between two parts and none after the last
RECURSIVE Join(_, _)
Join(parts, sep) ==
    IF parts = <<>> THEN <<>>
    ELSE IF Len(parts) = 1 THEN parts[1]
    ELSE parts[1] \o sep \o Join(Tail(parts), sep)

\* the content of the sources of asset n, in the order they are declared in
Sources(n) ==
    [i \in 1..Len(rC[n].files) |->
       IF rC[n].files[i][1] = "$" THEN rC[Tail(rC[n].files[i])].result
       ELSE rFiles[rC[n].files[i]]]

\* the filter named for asset n, or the identity
Filtered(n, bytes) ==
    IF n \in DOMAIN rFilters THEN Apply(rFilters[n], bytes) ELSE bytes

\* the assets of the assets file (not the injected one)
FromFile == {n \in DOMAIN rC : ~rDecl[n].processed}

\* C18: the resolved bytes of an asset are its filter applied to the contents
\* of its sources in the order of declaration, joined by its separator: the
\* bytes of a file, or the resolved bytes of the asset a source refers to.
C18_ResolvedBytes ==
    \A n \in FromFile :
        rC[n].processed =>
          /\ \A i \in 1..Len(rC[n].files) :
                rC[n].files[i][1] = "$" => rC[Tail(rC[n].files[i])].processed
          /\ rC[n].result = Filtered(n, Join(Sources(n), rC[n].separator))

\* the asset with the sources $b and a file is resolved, b being resolved to
\* some bytes
C18_Witness ==
    /\ rDecl # <<>>
    /\ rDecl[AssetA].files = <<Ref(AssetB), File1>>
    /\ rC[AssetA].processed
    /\ rC[AssetB].result # <<>>

\* C19: in a run of Process that succeeds every asset ends up resolved, the
\* concatenate-and-filter step of an asset of the assets file having run
\* exactly once and that of an injected asset never, whatever refers to what
\* and in whatever order the assets are visited.
C19_Once ==
    /\ \A n \in DOMAIN rC :
          /\ rC[n].runs <= 1
          /\ rDecl[n].processed => rC[n] = rDecl[n]
    /\ rErr = Ok =>
          \A n \in DOMAIN rC :
              /\ rC[n].processed
              /\ rC[n].runs = (IF rDecl[n].processed THEN 0 ELSE 1)

\* Process has succeeded on a collection where c is referred to by a and by
\* b, b by a, and the injected asset is there
C19_Witness ==
    /\ rErr = Ok
    /\ rDecl[AssetA].files = <<Ref(AssetB), Ref(AssetC)>>
    /\ rDecl[AssetB].files = <<Ref(AssetC)>>
    /\ AssetS \in DOMAIN rC
    /\ rC[AssetC].runs = 1
    /\ rC[AssetC].result # <<>>

\* C20: a second resolution of the same collection, with the same source
\* files, gives every asset the bytes and the output name of the first, in
\* whatever order the two runs of Process visit the assets.
C20_Deterministic ==
    rRun = 2 =>
      /\ rErr \in {Running, Ok}
      /\ \A n \in DOMAIN rC :
            rC[n].processed =>
              /\ rC[n].result = rFirst[n].result
              /\ rC[n].renderedName = rFirst[n].renderedName

\* the second resolution has succeeded; a refers to b
C20_Witness ==
    /\ rRun = 2
    /\ rErr = Ok
    /\ rDecl[AssetA].files = <<Ref(AssetB), File1>>
    /\ rDecl[AssetB].files = <<File2, Ref(AssetC)>>
    /\ rC[AssetA].renderedName # <<>>
    /\ Resolved(rC) = rFirst

\* ------------------------------------------------------ claims: assets render

\* the template of asset n has :hash in it
HashedTemplate(n) ==
    \E i \in 1..Len(rDecl[n].outName) : rDecl[n].outName[i] = ":hash"

\* the template of asset n begins with the sigil
SigilFirst(n) == Len(rDecl[n].outName) > 0 /\ rDecl[n].outName[1] = "$"

\* asset n is resolved under a name
Named(n) == rC[n].processed /\ rC[n].renderedName # <<>>

\* asset n was resolved under a name in the build before and is in this one
NamedTwice(n) == rRun = 2 /\ Named(n) /\ rFirst[n].renderedName # <<>>

\* asset n includes $b, b is kept in memory and refers to a file that was
\* edited between the builds
IncludesEdited(n) ==
    \E b \in DOMAIN rDecl, f \in DOMAIN rFiles :
        /\ SigilFirst(b)
        /\ \E i \in 1..Len(rDecl[n].files) : rDecl[n].files[i] = Ref(b)
        /\ \E i \in 1..Len(rDecl[b].files) : rDecl[b].files[i] = f
        /\ rFiles[f] # FileBytes[f]

\* C21 as stated: the name of a materialized asset is addressed by its
\* filtered bytes: the same bytes give the same name, other bytes give another
\* name, and an edit of a file that a buffered base refers to changes the name
\* of every materialized asset that includes the base.
C21_ContentAddressed ==
    \A n \in DOMAIN rC :
        NamedTwice(n) =>
          /\ rC[n].result = rFirst[n].result
               <=> rC[n].renderedName = rFirst[n].renderedName
          /\ IncludesEdited(n) => rC[n].renderedName # rFirst[n].renderedName

\* C21: the name of a materialized asset is its template with every :hash
\* replaced by the hash of its filtered bytes. The same bytes give the same
\* name; other bytes give another name when the template has :hash in it, and
\* the same name when it has not; an edit of a file that a buffered base refers
\* to changes the name of a materialized asset that includes the base exactly
\* when it changes the filtered bytes of that asset and the template has :hash.
C21_NameOfBytes ==
    \A n \in DOMAIN rC :
        /\ Named(n) =>
             rC[n].renderedName =
                [i \in 1..Len(rDecl[n].outName) |->
                   IF rDecl[n].outName[i] = ":hash" THEN Hash(rC[n].result)
                   ELSE <<rDecl[n].outName[i]>>]
        /\ NamedTwice(n) =>
             /\ rC[n].result = rFirst[n].result
                  => rC[n].renderedName = rFirst[n].renderedName
             /\ rC[n].renderedName = rFirst[n].renderedName
                  <=> (HashedTemplate(n) => rC[n].result = rFirst[n].result)
             /\ IncludesEdited(n) =>
                  (rC[n].renderedName # rFirst[n].renderedName
                     <=> HashedTemplate(n) /\ rC[n].result # rFirst[n].result)

\* after an edit of the file of the base, an asset that includes the base is
\* resolved under another name
C21_Witness ==
    /\ rRun = 2
    /\ rDecl[AssetA].files = <<File1, Ref(AssetB)>>
    /\ NamedTwice(AssetA)
    /\ IncludesEdited(AssetA)
    /\ rC[AssetA].renderedName # rFirst[AssetA].renderedName

\* C22: an asset that lists $x while the collection has no asset x is not
\* resolved: ProcessAsset returns an error that names x and leaves the asset
\* unprocessed, and Process returns that error.
C22_MissingReference ==
    \A n \in DOMAIN rC :
        (/\ AssetS \notin DOMAIN rC
         /\ \E i \in 1..Len(rC[n].files) : rC[n].files[i] = Ref(AssetS)) =>
          /\ ProcessAsset(rC, n).err = <<"not found", AssetS>>
          /\ ~ProcessAsset(rC, n).c[n].processed
          /\ n \in rVisited =>
               rErr = <<"not found", AssetS>> /\ ~rC[n].processed

\* Process has been at an asset that refers to an asset that does not exist,
\* after the asset it lists before it was resolved
C22_Witness ==
    /\ rDecl # <<>>
    /\ AssetS \notin DOMAIN rC
    /\ rDecl[AssetA].files = <<Ref(AssetB), Ref(AssetS)>>
    /\ AssetA \in rVisited
    /\ rC[AssetB].processed
    /\ rErr = <<"not found", AssetS>>

\* C25 as stated: an asset is kept in memory and not written exactly when its
\* template is the sigil and nothing else.
C25_BufferedExact ==
    rRenderErr = Ok =>
      \A n \in DOMAIN rC :
          rDecl[n].outName = <<"$">>
            <=> rC[n].renderedName \notin DOMAIN rWritten

\* C25: an asset is treated as buffered exactly when its template begins with
\* the sigil: it has no rendered name, keeps its filtered bytes in memory and
\* Render writes no file for it; every other asset that Render has been at
\* without an error of the writer is in the file of its rendered name.
C25_BufferedSigil ==
    \A n \in DOMAIN rC :
        /\ rC[n].processed =>
             /\ SigilFirst(n) <=> rC[n].renderedName = <<>>
             /\ rC[n].result = Filtered(n, Join(Sources(n), rC[n].separator))
        /\ (n \in rRendered /\ SigilFirst(n)) =>
             /\ rC[n].renderedName \notin DOMAIN rWritten
             /\ \A f \in DOMAIN rWritten : f[1] # <<"$">>
        /\ (n \in rRendered /\ ~SigilFirst(n) /\ rRenderErr # <<"write", n>>) =>
             /\ rC[n].renderedName \in DOMAIN rWritten
             /\ rWritten[rC[n].renderedName] = rC[n].result

\* Render is through with an asset whose template is the sigil and more
C25_Witness ==
    /\ rRenderErr = Ok
    /\ rDecl[AssetB].outName = <<"$", "x">>
    /\ rC[AssetB].result # <<>>
    /\ DOMAIN rWritten # {}

\* C26: an asset file is written in a build only after Process has returned
\* without an error, every asset of the collection being resolved; in a build
\* in which Process returns an error no asset file is written.
C26_RenderAfterProcess ==
    /\ DOMAIN rWritten # {} =>
         rErr = Ok /\ \A n \in DOMAIN rC : rC[n].processed
    /\ rErr \notin {Running, Ok} => DOMAIN rWritten = {} /\ rRendered = {}

\* in the second build Process has returned and Render has written the file
\* of one asset and not yet that of another
C26_Witness ==
    /\ rRun = 2
    /\ rErr = Ok
    /\ rRendered = {AssetB, AssetC}
    /\ rC[AssetC].renderedName \in DOMAIN rWritten

\* -------------------------------------------------------- claims: assets load

\* two assets of the assets file have the same name
Duplicate ==
    \E i, j \in 1..Len(lDecls) : i # j /\ lDecls[i].name = lDecls[j].name

\* C23: Load returns an error and no collection when the assets file declares
\* two assets of one name; in a collection that Load returns there is one
\* asset for every declaration and no name twice.
C23_UniqueNames ==
    /\ lPc = "loaded" =>
         /\ ~Duplicate
         /\ DOMAIN rC = {lDecls[i].name : i \in 1..Len(lDecls)}
         /\ Cardinality(DOMAIN rC) = Len(lDecls)
    /\ (Duplicate /\ lPc = "failed" /\ lPageFilters = lPageCfg) =>
         /\ lErr[1] = "duplicate asset name"
         /\ \E i, j \in 1..Len(lDecls) :
               i < j /\ lDecls[i].name = lDecls[j].name /\ lErr[2] = lDecls[j].name
         /\ DOMAIN lAssets = {}
         /\ DOMAIN rC = {}

\* Load has returned its error for the second of two assets of one name
C23_Witness ==
    /\ Duplicate
    /\ lPc = "failed"
    /\ lI = 2
    /\ lErr = <<"duplicate asset name", AssetA>>

\* C24: a filter name that is not registered ends the build with an error
\* and nothing is written for the asset or the page extension that names it.
C24_UnknownFilterFatal ==
    /\ (\E e \in DOMAIN lPageCfg : lPageCfg[e] \notin Makers) =>
         lPc \in {"pagefilters", "failed"} /\ DOMAIN rWritten = {}
    /\ \A i \in 1..Len(lDecls) :
          lDecls[i].filter \notin Makers \cup {"nil"} =>
            /\ \A f \in DOMAIN rWritten : f[1] # lDecls[i].name
            /\ rRenderErr # Ok

\* ------------------------------------------------------- claims: assets calls

\* the assets that asset n refers to
RefsOf(n) ==
    {m \in DOMAIN kC : \E i \in 1..Len(kC[n].files) : kC[n].files[i] = Ref(m)}

\* the assets that are referred to from the assets of S
RefsFrom(S) == UNION {RefsOf(m) : m \in S}

\* the back-references lead from asset n to n
OnCycle(n) ==
    n \in RefsOf(n) \cup RefsFrom(RefsOf(n)) \cup RefsFrom(RefsFrom(RefsOf(n)))

\* every file and every asset that a source names exists
NoneMissing ==
    \A n \in DOMAIN kC : \A i \in 1..Len(kC[n].files) :
        IF kC[n].files[i][1] = "$" THEN Tail(kC[n].files[i]) \in DOMAIN kC
        ELSE kC[n].files[i] \in DOMAIN FileBytes

\* a call for an asset runs inside a call for the same asset
Reentered ==
    \E j, k \in 1..Len(kStack) : j < k /\ kStack[j].asset = kStack[k].asset

\* C27: an asset on a cycle of back-references is never resolved and Process
\* never returns nil for its collection, nor any error but that of a source
\* that does not exist; once a call for an asset runs inside a call for the
\* same asset no call returns any more and the calls go deeper; and when no
\* source is missing Process never returns and the calls go as deep as they
\* are followed.
C27_CycleNeverReturns ==
    /\ [](\A n \in DOMAIN kC :
             OnCycle(n) =>
               /\ ~kC[n].processed
               /\ kErr # Ok
               /\ kErr # Running => kErr[1] \in {"not found", "open"})
    /\ [][Reentered =>
            /\ kErr' = Running
            /\ Len(kStack') >= Len(kStack)
            /\ \A k \in 1..Len(kStack) : kStack'[k].asset = kStack[k].asset]_vars
    /\ ((NoneMissing /\ \E n \in DOMAIN kC : OnCycle(n)) =>
          /\ [](kErr = Running)
          /\ <>(Len(kStack) = MaxDepth /\ Reentered))

\* two assets refer to each other, a third one is resolved, and the calls for
\* the two are as deep as they are followed
C27_Witness ==
    /\ Len(kStack) = MaxDepth
    /\ kStack[1].asset = AssetA
    /\ kStack[2].asset = AssetB
    /\ kStack[3].asset = AssetA
    /\ kC[AssetC].processed
    /\ kErr = Running

\* ----------------------------------------------------------- claims: task pool

\* the tasks that have failed, in the order in which they completed
FailedInOrder == SelectSeq(qDone, LAMBDA t : qState[t] = "failed")

\* C28: Wait returns only after every task that was submitted with Add has run
\* to its end, also when a task has failed and also the tasks for which Add
\* returned false; a task that was submitted is not taken back.
C28_WaitAfterAll ==
    /\ qPc = "returned" =>
         \A t \in Submitted :
            qState[t] \in {"ok", "failed"} /\ \E k \in 1..Len(qDone) : qDone[k] = t
    /\ \A t \in Submitted : qState[t] # "new"

\* Wait has returned after a task failed and the tasks submitted after the
\* failure, for which Add returned false, have run
C28_Witness ==
    /\ qPc = "returned"
    /\ qNext = NTasks + 1
    /\ qState[1] = "failed"
    /\ qAddRet[2] = "false"
    /\ qAddRet[NTasks] = "false"
    /\ qState[NTasks] = "ok"

\* C29: Wait returns nil exactly when no submitted task has failed, and else
\* the error of the failed task that completed first; Add returns false only
\* when a task submitted before has failed by then.
C29_FirstError ==
    /\ qPc = "returned" =>
         /\ qWaitRet = 0 <=> \A t \in Submitted : qState[t] # "failed"
         /\ qWaitRet # 0 => qWaitRet = FailedInOrder[1]
    /\ \A t \in Submitted :
          qAddRet[t] = "false" => \E u \in 1..(t - 1) : qState[u] = "failed"

\* two tasks have failed, the one submitted later first, and Wait has
\* returned the error of that one
C29_Witness ==
    /\ qPc = "returned"
    /\ qState[1] = "failed"
    /\ qState[2] = "failed"
    /\ qDone[1] = 2
    /\ qWaitRet = 2

\* ---------------------------------------------------------- claims: hash cache

\* the calls before the k-th for the path of the k-th
Earlier(k) == {j \in 1..(k - 1) : hCalls[j].path = hCalls[k].path}

\* the last of a set of calls
Latest(S) == CHOOSE j \in S : \A i \in S : i <= j

\* C30: a call of Seen returns true exactly when there is an earlier call for
\* the same path and the latest of them had the same content; the cache then
\* holds for every path the hash of the content of its latest call, whatever
\* calls for other paths came between.
C30_Seen ==
    /\ \A k \in 1..Len(hCalls) :
          hCalls[k].ret <=>
            /\ Earlier(k) # {}
            /\ hCalls[Latest(Earlier(k))].content = hCalls[k].content
    /\ \A path \in HashPaths :
          LET S == {j \in 1..Len(hCalls) : hCalls[j].path = path}
          IN IF S = {} THEN path \notin DOMAIN hM
             ELSE /\ path \in DOMAIN hM
                  /\ hM[path] = <<"md5", hCalls[Latest(S)].content>>

\* a content is seen for a path, then another for that path and one for
\* another path, and then the first again: it is new again
C30_Witness ==
    /\ Len(hCalls) = 4
    /\ hCalls[1].path = hCalls[2].path
    /\ hCalls[1].content # hCalls[2].content
    /\ hCalls[3].path # hCalls[1].path
    /\ hCalls[4].path = hCalls[1].path
    /\ hCalls[4].content = hCalls[1].content
    /\ ~hCalls[4].ret

\* ------------------------------------------------- claims: assets resolution

\* the k-th call goes on from a source that is a back-reference: the Result
\* of the asset it refers to has been written to the buffer of the call
ReadsResult(k, m) ==
    /\ k <= Len(kStack')
    /\ kStack'[k].asset = kStack[k].asset
    /\ kStack'[k].i = kStack[k].i + 1
    /\ kC[kStack[k].asset].files[kStack[k].i] = Ref(m)

\* C31: the Result of an asset is written to the buffer of an asset that
\* refers to it only when the asset is marked processed, the call that
\* resolves it, if one was made, having returned.
C31_ReadAfterProcessed ==
    [][\A k \in 1..Len(kStack) : \A m \in DOMAIN kC :
          ReadsResult(k, m) =>
            /\ kC'[m].processed
            /\ \A j \in 1..Len(kStack') : j > k => kStack'[j].asset # m
            /\ Len(kStack') = k]_vars

\* the call for an asset has gone on from its back-reference to an asset
\* that the call inside it has resolved
C31_Witness ==
    /\ Len(kStack) = 1
    /\ kStack[1].asset = AssetA
    /\ kStack[1].i = 2
    /\ kC[AssetA].files[1] = Ref(AssetB)
    /\ kC[AssetB].processed
    /\ ~kC[AssetA].processed

\* C32: within a build the Result and the RenderedName of an asset that is
\* marked processed are not assigned again, by Process, ProcessAsset or Render.
C32_ProcessedFrozen ==
    [][\A n \in DOMAIN rC :
          (rC[n].processed /\ rRun' = rRun) =>
            /\ rC'[n].result = rC[n].result
            /\ rC'[n].renderedName = rC[n].renderedName
            /\ rC'[n].runs = rC[n].runs
            /\ rC'[n].processed]_vars

\* Render has written the asset that includes another one, both resolved, the
\* loop of Process having been at the other one after it was resolved
C32_Witness ==
    /\ rDecl # <<>>
    /\ rDecl[AssetA].files = <<File1, Ref(AssetB)>>
    /\ rVisited = {AssetA, AssetB, AssetC}
    /\ rC[AssetB].runs = 1
    /\ AssetA \in rRendered
    /\ rC[AssetA].renderedName \in DOMAIN rWritten

\* ------------------------------------------------- claims: runBuild with pools

\* C33: a step of runBuild that fails ends runBuild with the error of that
\* step, no later step being made, and the caller of Build receives that
\* error; a step that renders in a pool returns, with the error of a task or
\* without, only after Wait has returned, every task submitted to the pool
\* having finished, and it fails when a task has failed.
C33_ErrorEndsBuild ==
    [][/\ (stage \in 1..NSteps /\ stage' # stage) =>
            \/ stage' = stage + 1 /\ result' = result /\ builderPc' = "run"
            \/ /\ stage' = 0
               /\ builderPc' = "send"
               /\ result' = [err |-> Steps[stage], by |-> trigBy]
       /\ (stage = 0 /\ PoolOpen) => UNCHANGED qvars
       /\ (AtPoolStep /\ stage' # stage) =>
            /\ qPc = "returned"
            /\ \A t \in Submitted : qState[t] \in {"ok", "failed"}
            /\ stage' = 0 => qWaitRet # 0 \/ Steps[stage] = "RenderPages"
            /\ qWaitRet # 0 => stage' = 0
       /\ \A c \in Callers :
            (got'[c] # got[c] /\ got'[c] # NoResult) =>
              got'[c] = result /\ result.by = c /\ callerPc'[c] = "check"]_vars

\* the caller of Build has received the error of RenderPages, which is the
\* error of the first task, after the tasks submitted later have finished
C33_Witness ==
    /\ callerPc[1] = "check"
    /\ got[1] = [err |-> "RenderPages", by |-> 1]
    /\ qPc = "closed"
    /\ qWaitRet = 1
    /\ qNext = NTasks + 1
    /\ qAddRet[NTasks] = "false"
    /\ qState[NTasks] = "ok"

\* ---------------------------------------------------- claims: fspoll state
\* the stored snapshot is what a walk of the tree finds now
Current == fState = getState(fFs, fGlobs)

\* the goroutine running start() has come back from w.check()
Checked == fPc = "check" /\ fPc' # "check"

\* C34: w.state is replaced by the fresh snapshot exactly when check returns
\* without a walk error, whether it reports a change or not, and is left as
\* it was when the walk fails; so after a poll whose walk succeeded the
\* snapshot stays current until the tree changes, and a poll that finds it
\* current reports no change: a change is reported by one poll and not by
\* the next.
C34_SnapshotReplaced ==
    [][/\ Checked =>
            IF fPc' = "sendErr" THEN fState' = fState
            ELSE /\ fState' = getState(fFs, fGlobs)
                 /\ Current'
       /\ fState' # fState => Checked /\ fPc' # "sendErr"
       /\ (Checked /\ Current) => fPc' \in {"select", "sendErr"}
       /\ (Checked /\ fPc' = "sendChange") => ~Current]_vars

\* a file was created, one poll has reported it, and the poll after it, the
\* tree being as it was, has reported nothing
C34_Witness ==
    /\ fPc = "select"
    /\ fOps = 1
    /\ ~fErrSeen
    /\ fElapsed > 0
    /\ RT \in DOMAIN fState
    /\ Current

\* ------------------------------------------------- claims: WriteFile sends
\* C35: every goroutine started by WriteFile sends exactly one value on done,
\* whatever its writer does (success, failure to open, to write, to close):
\* no goroutine sends twice, and when WriteFile has returned every goroutine
\* it started has sent its one value and has finished.
C35_OneSendEach ==
    /\ \A w \in Writers : wSends[w] <= 1
    /\ (wMainPc = "returned" /\ wMkdirOk) =>
         \A w \in Started : wSends[w] = 1 /\ wPc[w] = "exit"

\* ------------------------------------------------------- claims: LoadPost
\* what LoadPost with caching disabled returns for the post file
Uncached == PostOf(oFile.name, ParsedPage(oFile))

\* C36: with caching enabled, every LoadPost of the post file, its content
\* unchanged, returns the error or the Date, url, id, tags and Filename that
\* the first load, which parsed the file, returned, and that a load with
\* caching disabled returns: what an earlier LoadPost has written into the
\* cached Page changes nothing.
C36_HitAsParsed ==
    \A i \in 1..Len(oLoads) :
        /\ oLoads[i].err = oLoads[1].err
        /\ oLoads[i].post = oLoads[1].post
        /\ oLoads[i].err = Uncached.err
        /\ oLoads[i].post = Uncached.post

\* -------------------------------------------------------- claims: sitemap
\* the entries of the sitemap that are the entry of item i
EntriesOf(i) ==
    {k \in 1..Len(mSitemap[1]) : mSitemap[1][k] = i}

\* C37: after a build with a sitemap configured, the sitemap holds exactly
\* one entry for each rendered post, page and tag index whose InSitemap is
\* true and none for the others, whatever the interleaving of the render
\* tasks.
C37_OneEntryEach ==
    (mPc = "idle" /\ mLast = "nil" /\ mConf) =>
        /\ mSitemap # NoSitemap
        /\ \A i \in MapItems :
             Cardinality(EntriesOf(i)) = IF mIn[i] THEN 1 ELSE 0

\* rendering starts: runBuild goes from LoadConfig to the first render step
RenderingStarts == mPc = "idle" /\ mPc' = MapSteps[1]

\* RenderSitemap returns
SitemapReturns == mPc = "sitemap" /\ mPc' = "idle"

\* C39: in every build of a sequence of builds on one Site, when rendering
\* starts s.sitemap is a new, empty sitemap if the configuration that build
\* has loaded names a sitemap file and is nil otherwise, and RenderSitemap
\* renders a sitemap if and only if that configuration names one.
C39_SitemapFollowsConfig ==
    [][/\ RenderingStarts =>
            mSitemap' = IF mConf' THEN NewSitemap ELSE NoSitemap
       /\ SitemapReturns => (mMapRendered' <=> mConf)]_vars

\* ------------------------------------------------------- claims: watching
\* a Build is running
Building == xPc \in {"reading", "rendering"}

\* the polling goroutine is blocked in w.Change <- true
Pending == fPc = "sendChange"

\* the tree is what the last Build has read, as far as a poll can tell, and
\* neither a Build nor a Change is under way
Settled ==
    /\ ~Building
    /\ ~Pending
    /\ ~HasChange(xSeen, getState(fFs, fGlobs))

\* while a Build runs a pending Change stays pending and the polling
\* goroutine polls no more: there is at most one; a Change is received only
\* when no Build runs, and a Build starts with it
C38_Step ==
    /\ (Building /\ Pending) => (Pending' /\ fState' = fState)
    /\ (Pending /\ ~Pending') => (~Building /\ Building' /\ xBuilds' = xBuilds + 1)
    /\ xBuilds' # xBuilds => (Pending /\ ~Pending')

\* C38 as stated: in watch mode a change of the source tree made while a
\* Build runs is not lost: a later poll finds it, its Change emission waits
\* until the Build has returned, at most one being pending, another Build is
\* started for it, and in the end the tree is the one the last Build has
\* read.
C38_ChangeNotLost ==
    /\ [][C38_Step]_vars
    /\ Pending ~> (Building /\ ~Pending)
    /\ <>[]Settled

\* the polling goroutine has caught up with the tree and neither a Build nor
\* a Change is under way
CaughtUp ==
    /\ ~Building
    /\ ~Pending
    /\ Current

\* C38 as amended: in watch mode a change that a poll finds while a Build
\* runs is not lost: its Change emission waits until the Build has returned,
\* at most one being pending, and another Build is then started; a poll
\* finds a change made during a Build unless the tree is by then back to
\* what the stored snapshot shows, and in the end the stored snapshot is the
\* tree and no Change is left undelivered.
C38_FoundNotLost ==
    /\ [][C38_Step]_vars
    /\ Pending ~> (Building /\ ~Pending)
    /\ <>[]CaughtUp

\* a second Build runs, started by a Change that was pending when the first
\* Build returned: the file it is for was changed while the first Build ran
C38_Witness ==
    /\ Building
    /\ xBuilds = 2
    /\ xWaited
    /\ fOps = 2

\* ========================================================= specifications
InitBuild ==
    BuildInit /\ WriteOff /\ CopyOff /\ PageOff /\ PollOff /\ WatchOff
    /\ AssetsOff
    /\ LoadOff
    /\ CycleOff
    /\ PoolOff
    /\ HashOff
    /\ PostOff
    /\ SitemapOff
    /\ WatchingOff

NextBuild == BuildNext

SpecBuild == InitBuild /\ [][NextBuild]_vars

\* the Go scheduler runs every goroutine that can take a step
FairBuild ==
    /\ SpecBuild
    /\ WF_vars(BuilderStep)
    /\ WF_vars(\E c \in Callers : Result(c))
    /\ WF_vars(\E c \in Callers : Trigger(c))
    /\ WF_vars(\E c \in Callers : BuildCheck(c) \/ SearchDone(c))

InitWrite ==
    WriteInit /\ BuildOff /\ CopyOff /\ PageOff /\ PollOff /\ WatchOff
    /\ AssetsOff
    /\ LoadOff
    /\ CycleOff
    /\ PoolOff
    /\ HashOff
    /\ PostOff
    /\ SitemapOff
    /\ WatchingOff

NextWrite == WriteNext

SpecWrite == InitWrite /\ [][NextWrite]_vars

InitCopy ==
    CopyInit /\ BuildOff /\ WriteOff /\ PageOff /\ PollOff /\ WatchOff
    /\ AssetsOff
    /\ LoadOff
    /\ CycleOff
    /\ PoolOff
    /\ HashOff
    /\ PostOff
    /\ SitemapOff
    /\ WatchingOff

NextCopy == CopyNext

SpecCopy == InitCopy /\ [][NextCopy]_vars

InitCache ==
    PageInit /\ BuildOff /\ WriteOff /\ CopyOff /\ PollOff /\ WatchOff
    /\ AssetsOff
    /\ LoadOff
    /\ CycleOff
    /\ PoolOff
    /\ HashOff
    /\ PostOff
    /\ SitemapOff
    /\ WatchingOff

NextCache == PageNext

SpecCache == InitCache /\ [][NextCache]_vars

InitPoll ==
    PollInit /\ BuildOff /\ WriteOff /\ CopyOff /\ PageOff /\ WatchOff
    /\ AssetsOff
    /\ LoadOff
    /\ CycleOff
    /\ PoolOff
    /\ HashOff
    /\ PostOff
    /\ SitemapOff
    /\ WatchingOff

NextPoll == PollNext

SpecPoll == InitPoll /\ [][NextPoll]_vars

\* the goroutine running start() and the one inside Close are scheduled;
\* nothing makes any goroutine receive from Change or Error
FairPoll == SpecPoll /\ WF_vars(LoopStep)

InitWatch ==
    WatchInit /\ BuildOff /\ WriteOff /\ CopyOff /\ PageOff /\ PollOff
    /\ AssetsOff
    /\ LoadOff
    /\ CycleOff
    /\ PoolOff
    /\ HashOff
    /\ PostOff
    /\ SitemapOff
    /\ WatchingOff

NextWatch == WatchNext

SpecWatch == InitWatch /\ [][NextWatch]_vars

InitAssets ==
    AssetsInit /\ BuildOff /\ WriteOff /\ CopyOff /\ PageOff /\ PollOff
    /\ WatchOff
    /\ LoadOff
    /\ CycleOff
    /\ PoolOff
    /\ HashOff
    /\ PostOff
    /\ SitemapOff
    /\ WatchingOff

NextAssets == AssetsNext

SpecAssets == InitAssets /\ [][NextAssets]_vars

InitRender ==
    RenderInit /\ BuildOff /\ WriteOff /\ CopyOff /\ PageOff /\ PollOff
    /\ WatchOff
    /\ LoadOff
    /\ CycleOff
    /\ PoolOff
    /\ HashOff
    /\ PostOff
    /\ SitemapOff
    /\ WatchingOff

NextRender == RenderSiteNext

SpecRender == InitRender /\ [][NextRender]_vars

InitLoad ==
    LoadInit /\ BuildOff /\ WriteOff /\ CopyOff /\ PageOff /\ PollOff
    /\ WatchOff /\ AssetsOff
    /\ CycleOff
    /\ PoolOff
    /\ HashOff
    /\ PostOff
    /\ SitemapOff
    /\ WatchingOff

NextLoad == LoadNext

SpecLoad == InitLoad /\ [][NextLoad]_vars

InitCycle ==
    CycleInit /\ BuildOff /\ WriteOff /\ CopyOff /\ PageOff /\ PollOff
    /\ WatchOff /\ AssetsOff /\ LoadOff
    /\ PoolOff
    /\ HashOff
    /\ PostOff
    /\ SitemapOff
    /\ WatchingOff

NextCycle == CycleNext

SpecCycle == InitCycle /\ [][NextCycle]_vars

\* the one goroutine of the build runs on
FairCycle == SpecCycle /\ WF_vars(NextCycle)

InitPool ==
    PoolInit /\ BuildOff /\ WriteOff /\ CopyOff /\ PageOff /\ PollOff
    /\ WatchOff /\ AssetsOff /\ LoadOff /\ CycleOff
    /\ HashOff
    /\ PostOff
    /\ SitemapOff
    /\ WatchingOff

NextPool == PoolNext

SpecPool == InitPool /\ [][NextPool]_vars

InitHash ==
    HashInit /\ BuildOff /\ WriteOff /\ CopyOff /\ PageOff /\ PollOff
    /\ WatchOff /\ AssetsOff /\ LoadOff /\ CycleOff /\ PoolOff
    /\ PostOff
    /\ SitemapOff
    /\ WatchingOff

NextHash == HashNext

SpecHash == InitHash /\ [][NextHash]_vars

InitRun ==
    BuildInit /\ WriteOff /\ CopyOff /\ PageOff /\ PollOff /\ WatchOff
    /\ AssetsOff /\ LoadOff /\ CycleOff /\ PoolOff /\ HashOff
    /\ PostOff
    /\ SitemapOff
    /\ WatchingOff

NextRun == RunNext

SpecRun == InitRun /\ [][NextRun]_vars

InitPost ==
    PostInit /\ BuildOff /\ WriteOff /\ CopyOff /\ PageOff /\ PollOff
    /\ WatchOff /\ AssetsOff /\ LoadOff /\ CycleOff /\ PoolOff /\ HashOff
    /\ SitemapOff
    /\ WatchingOff

NextPost == PostNext

SpecPost == InitPost /\ [][NextPost]_vars

InitSitemap ==
    SitemapInit /\ BuildOff /\ WriteOff /\ CopyOff /\ PageOff /\ PollOff
    /\ WatchOff /\ AssetsOff /\ LoadOff /\ CycleOff /\ PoolOff /\ HashOff
    /\ PostOff
    /\ WatchingOff

NextSitemap == SitemapNext

SpecSitemap == InitSitemap /\ [][NextSitemap]_vars

InitWatching ==
    WatchingInit /\ BuildOff /\ WriteOff /\ CopyOff /\ PageOff /\ WatchOff
    /\ AssetsOff /\ LoadOff /\ CycleOff /\ PoolOff /\ HashOff /\ PostOff
    /\ SitemapOff

NextWatching == WatchingNext

SpecWatching == InitWatching /\ [][NextWatching]_vars

\* the goroutines are scheduled, and a walk that is tried again and again
\* does not fail for ever
FairWatching ==
    /\ SpecWatching
    /\ WF_vars(WatcherStep)
    /\ WF_vars(WatchTimeout)
    /\ SF_vars(CheckOk)

====
